---- MODULE Spec2Model ----
(***************************************************************************)
(* A model of the protocol engine of clangd's LSP endpoint                 *)
(* (clang-tools-extra/clangd/ClangdLSPServer.cpp): the MessageHandler      *)
(* that dispatches inbound notifications, calls and replies, the table of  *)
(* outbound calls awaiting a reply (ReplyCallbacks), the registry of       *)
(* cancelable inbound calls (RequestCancelers), the ReplyOnce guard, and   *)
(* the teardown of the server object.                                      *)
(*                                                                         *)
(* The model is the NDEBUG build: assert() is compiled out, so ReplyOnce   *)
(* logs and recovers instead of aborting.  The analysis backend            *)
(* (ClangdServer), the transport and the parameter binder (LSPBinder) are  *)
(* external: a backend handler is a worker thread that ends with a result, *)
(* an error, a cancellation error, or by dropping its callback.            *)
(*                                                                         *)
(* Threads: the transport's read loop is the main thread (OnNotify,        *)
(* OnCall, OnReply, each one whole handler).  Backend handlers and         *)
(* background outbound calls run on worker threads and interleave with it. *)
(* A mutex-protected region is one atomic step.                            *)
(***************************************************************************)
EXTENDS Integers, Sequences, FiniteSets

VARIABLES
  Server,                  \* ClangdLSPServer::Server is engaged (initialize has run)
  MethodHandlers,          \* Handlers.MethodHandlers: the bound call methods
  NotificationHandlers,    \* Handlers.NotificationHandlers: the bound notifications
  ShutdownRequestReceived, \* ClangdLSPServer::ShutdownRequestReceived
  IsBeingDestroyed,        \* ClangdLSPServer::IsBeingDestroyed
  phase,                   \* "running" (in Transp.loop), "stopped", "destroying", "destroyed", "crashed"
  ncalls,                  \* the number of inbound calls dispatched so far
  calls,                   \* the inbound calls whose guard or context is alive, by number
  ended,                   \* the inbound calls that the last step ended, as they ended
  RequestCancelers,        \* MessageHandler::RequestCancelers: StrID -> (canceler, cookie)
  NextRequestCookie,       \* MessageHandler::NextRequestCookie
  ReplyCallbacks,          \* MessageHandler::ReplyCallbacks: deque of (id, callback)
  NextCallID,              \* MessageHandler::NextCallID
  workers,                 \* per worker thread: its position inside callMethod
  cbLog,                   \* outbound id -> the arguments its callback was invoked with, if any
  lastCallFrame,           \* the id of the outbound call frame written last (Transp.call)
  last,                    \* the operation that produced this state
  guards,                  \* GuardSpec: the ReplyOnce objects of one inbound call, in order of construction
  sending,                 \* GuardSpec: per thread, the reply it is writing inside ReplyOnce::operator()
  invoked,                 \* GuardSpec: the payloads ReplyOnce::operator() was invoked with, in order
  frames,                  \* GuardSpec: the reply frames written (Transp.reply)
  drafts,                  \* DocSpec: the documents the backend tracks (Server->getDraft is non-null)
  LastSemanticTokens,      \* ClangdLSPServer::LastSemanticTokens: File -> (tokens, resultId)
  DiagRefMap,              \* ClangdLSPServer::DiagRefMap: File -> (DiagKey -> DiagRef)
  tokenReqs,               \* DocSpec: the token computations in flight in the backend
  ntok,                    \* DocSpec: the number of token computations requested so far
  docLast,                 \* DocSpec: the document operation that produced this state
  owner,                   \* LockSpec: per mutex, the thread that holds it, or "free"
  pcs,                     \* LockSpec: per thread, the steps left of the operation it runs
  heldCB,                  \* LockSpec: per thread, the callback it took out of ReplyCallbacks
  inWrite,                 \* LockSpec: the threads inside Transp.reply, Transp.call or Transp.notify
  BackgroundIndexProgressState, \* ClangdLSPServer::BackgroundIndexProgressState
  BackgroundIndexSkipCreate,    \* ClangdLSPServer::BackgroundIndexSkipCreate
  PendingBackgroundIndexProgress, \* ClangdLSPServer::PendingBackgroundIndexProgress
  progressSent,            \* LockSpec: the values of the $/progress notifications written, in order
  bound,                   \* LockSpec: initialize has bound the handlers
  nlock,                   \* LockSpec: the number of operations started so far
  incS,                    \* IncrementSpec: the string increment was called with
  incT,                    \* IncrementSpec: the string it left (empty before the first call)
  runResult,               \* what run() returned: "success" or "failure"; "running" inside the loop
  Opts                     \* ClangdLSPServer::Opts: Encoding and WorkspaceRoot

\* the state of one reply guard and its copies
guardVars == <<guards, sending, invoked, frames>>

\* the per-document caches and the backend state they depend on
docVars == <<drafts, LastSemanticTokens, DiagRefMap, tokenReqs, ntok, docLast>>

\* one application of increment
incVars == <<incS, incT>>

\* the mutexes, the threads and the progress state
lockVars ==
  <<owner, pcs, heldCB, inWrite, BackgroundIndexProgressState, BackgroundIndexSkipCreate,
    PendingBackgroundIndexProgress, progressSent, bound, nlock>>

\* what onCall leaves alone
callVars == <<guardVars, docVars, lockVars, incVars, runResult>>

\* what the other steps of the dispatcher leave alone
auxVars == <<callVars, Opts>>

\* what the steps that end the loop leave alone
sideVars == <<guardVars, docVars, lockVars, incVars, Opts>>

\* the state of the dispatcher, the two tables and the teardown
mainVars ==
  <<Server, MethodHandlers, NotificationHandlers, ShutdownRequestReceived,
    IsBeingDestroyed, phase, ncalls, calls, ended, RequestCancelers, NextRequestCookie,
    ReplyCallbacks, NextCallID, workers, cbLog, lastCallFrame, last>>

vars == <<mainVars, auxVars>>

(***************************************************************************)
(* Bounds of the exploration.                                              *)
(***************************************************************************)
\* inbound calls the peer sends in one run of Spec
MaxCalls == 3
\* TableSpec: inbound calls the peer sends in one run
TableCalls == 2
\* TableSpec: the peer answers nothing until this many outbound calls exist
SilentBinds == 100
\* TableSpec: outbound calls issued in one run
MaxBinds == 102

\* static constexpr int MaxReplayCallbacks = 100;
MaxReplayCallbacks == 100

Workers == {"w1", "w2"}

(***************************************************************************)
(* JSON values used as identifiers: an integer, a string, or absent.       *)
(***************************************************************************)
JInt(n) == [t |-> "int", n |-> n, s |-> ""]
JStr(s) == [t |-> "str", n |-> 0, s |-> s]
NoID == [t |-> "none", n |-> 0, s |-> ""]

\* identifiers the peer uses for its calls, and in $/cancelRequest
CallIds == {JInt(5), JStr("5")}

Digit(d) ==
  CASE d = 0 -> "0" [] d = 1 -> "1" [] d = 2 -> "2" [] d = 3 -> "3"
    [] d = 4 -> "4" [] d = 5 -> "5" [] d = 6 -> "6" [] d = 7 -> "7"
    [] d = 8 -> "8" [] OTHER -> "9"

RECURSIVE IntToStr(_)
IntToStr(n) == IF n < 10 THEN Digit(n) ELSE IntToStr(n \div 10) \o Digit(n % 10)

\* llvm::to_string(json::Value): the JSON serialization, so a string keeps its quotes
to_string(ID) == IF ID.t = "int" THEN IntToStr(ID.n) ELSE "\"" \o ID.s \o "\""

\* json::Value::getAsInteger: the integer of a number, nothing for a string
NoInt == -1

\* a getAsInteger that reads a string of digits as a number
getAsInteger_ParsesStrings(ID) ==
  IF ID.t = "int" THEN ID.n ELSE IF ID.s = "0" THEN 0 ELSE NoInt

getAsInteger(ID) == IF ID.t = "int" THEN ID.n ELSE NoInt

(***************************************************************************)
(* Methods.  The constructor binds initialize alone; bindMethods, run by   *)
(* onInitialize, binds the rest.  Of the bound call methods the model      *)
(* keeps one of each shape: shutdown (replies at once), hover (completed   *)
(* by the backend on a worker thread), executeCommand with the apply-fix   *)
(* command (replies when its outbound workspace/applyEdit call resolves).  *)
(***************************************************************************)
ConstructorMethods == {"initialize"}
bindMethods ==
  [methods |-> {"shutdown", "textDocument/hover", "workspace/executeCommand"},
   notifications |-> {"initialized"}]

InboundMethods ==
  {"initialize", "shutdown", "textDocument/hover", "workspace/executeCommand",
   "foo/unknown"}
InboundNotifications == {"exit", "initialized", "$/cancelRequest", "foo/unknown"}

NoOut == -1
BgCB == 0

\* the threads: the one in Transp.loop, the background index, a backend worker
Threads == {"main", "idx", "w1"}

\* the mutexes of ClangdLSPServer and its MessageHandler
Mutexes ==
  {"CallMutex", "RequestCancelersMutex", "TranspWriter", "DiagRefMutex",
   "SemanticTokensMutex", "BackgroundIndexProgressMutex"}

NoEntry == [id |-> NoOut, cb |-> BgCB]

(***************************************************************************)
(* Finite maps.                                                            *)
(***************************************************************************)
EmptyMap == [k \in {} |-> 0]
Put(f, k, v) == [x \in DOMAIN f \cup {k} |-> IF x = k THEN v ELSE f[x]]
Drop(f, k) == [x \in DOMAIN f \ {k} |-> f[x]]

(***************************************************************************)
(* ReplyOnce.  A call record c carries the guard's Replied flag and the    *)
(* reply frames written for the call (sent); torn records a guard that     *)
(* was destroyed unreplied during teardown.                                *)
(***************************************************************************)
\* ReplyOnce::operator(): the exchange on Replied, then Transp.reply
ReplyOnceCall(c, payload) ==
  IF c.Replied
    THEN c
    ELSE [c EXCEPT !.Replied = TRUE, !.sent = Append(@, payload)]

\* a destructor that forgets the Replied test
ReplyOnceDtor_IgnoresReplied(c, destroying) ==
  IF ~destroying
    THEN [c EXCEPT !.Replied = TRUE, !.sent = Append(@, "InternalError")]
    ELSE [c EXCEPT !.torn = ~c.Replied]

\* ReplyOnce::~ReplyOnce of the guard that owns the call (Server is non-null)
ReplyOnceDtor(c, destroying) ==
  IF ~destroying /\ ~c.Replied
    THEN ReplyOnceCall(c, "InternalError")
    ELSE [c EXCEPT !.torn = ~c.Replied]

(***************************************************************************)
(* The cancellation registry.                                              *)
(***************************************************************************)
\* a registration that keeps the entry an id already has (try_emplace)
Register_NoOverwrite(rc, StrID, n, Cookie) ==
  IF StrID \in DOMAIN rc THEN rc ELSE Put(rc, StrID, [canceler |-> n, cookie |-> Cookie])

\* cancelableRequestContext: RequestCancelers[StrID] = {canceler, Cookie}
Register(rc, StrID, n, Cookie) == Put(rc, StrID, [canceler |-> n, cookie |-> Cookie])

\* a context without a scope-exit: the entry outlives its call
ScopeExit_Keeps(rc, StrID, Cookie) == rc

\* a scope-exit that erases whatever entry the id has
ScopeExit_NoCookie(rc, StrID, Cookie) ==
  IF StrID \in DOMAIN rc THEN Drop(rc, StrID) ELSE rc

\* the scope-exit of cancelableRequestContext
ScopeExit(rc, StrID, Cookie) ==
  IF StrID \in DOMAIN rc /\ rc[StrID].cookie = Cookie THEN Drop(rc, StrID) ELSE rc

\* onCancel: the calls whose canceler the message invokes
Cancelled(rc, Params) ==
  IF Params.t = "none"
    THEN {}
    ELSE IF to_string(Params) \in DOMAIN rc
           THEN {rc[to_string(Params)].canceler}
           ELSE {}

(***************************************************************************)
(* The outbound call table.                                                *)
(***************************************************************************)
\* a bindReply that evicts when the table reaches the capacity
bindReply_OffByOne(rcb, nid, cb) ==
  LET pushed == Append(rcb, [id |-> nid, cb |-> cb])
  IN IF Len(pushed) >= MaxReplayCallbacks
       THEN [ID |-> nid, ReplyCallbacks |-> Tail(pushed), OldestCB |-> Head(pushed)]
       ELSE [ID |-> nid, ReplyCallbacks |-> pushed, OldestCB |-> NoEntry]

\* a bindReply that runs the oldest callback and leaves its entry in the table
bindReply_NoPop(rcb, nid, cb) ==
  LET pushed == Append(rcb, [id |-> nid, cb |-> cb])
  IN IF Len(pushed) > MaxReplayCallbacks
       THEN [ID |-> nid, ReplyCallbacks |-> pushed, OldestCB |-> Head(pushed)]
       ELSE [ID |-> nid, ReplyCallbacks |-> pushed, OldestCB |-> NoEntry]

\* a bindReply that numbers a call by the size of the table
bindReply_CountsEntries(rcb, nid, cb) ==
  LET pushed == Append(rcb, [id |-> Len(rcb), cb |-> cb])
  IN IF Len(pushed) > MaxReplayCallbacks
       THEN [ID |-> Len(rcb), ReplyCallbacks |-> Tail(pushed), OldestCB |-> Head(pushed)]
       ELSE [ID |-> Len(rcb), ReplyCallbacks |-> pushed, OldestCB |-> NoEntry]

\* a bindReply that hands out the id and registers nothing
bindReply_Unregistered(rcb, nid, cb) ==
  [ID |-> nid, ReplyCallbacks |-> rcb, OldestCB |-> NoEntry]

\* bindReply, the region under CallMutex
bindReply(rcb, nid, cb) ==
  LET pushed == Append(rcb, [id |-> nid, cb |-> cb])
  IN IF Len(pushed) > MaxReplayCallbacks
       THEN [ID |-> nid, ReplyCallbacks |-> Tail(pushed), OldestCB |-> Head(pushed)]
       ELSE [ID |-> nid, ReplyCallbacks |-> pushed, OldestCB |-> NoEntry]

\* onReply, the region under CallMutex: the index of the entry found, or 0
FindReply(rcb, ID) ==
  IF getAsInteger(ID) = NoInt
    THEN 0
    ELSE LET hits == {k \in 1..Len(rcb) : rcb[k].id = getAsInteger(ID)}
         IN IF hits = {} THEN 0 ELSE CHOOSE k \in hits : \A j \in hits : k <= j

\* an erase that removes nothing
EraseAt_Keeps(rcb, k) == rcb

EraseAt(rcb, k) == SubSeq(rcb, 1, k - 1) \o SubSeq(rcb, k + 1, Len(rcb))

\* a callback that reads only whether the peer answered
ApplyEditReply_IgnoresApplied(arg) ==
  CASE arg \in {"applied", "notApplied"} -> "result"
    [] arg = "peerError" -> "peerError"
    [] OTHER -> "noClientReply"

\* applyEdit's callback: the reply it gives the inbound call
ApplyEditReply(arg) ==
  CASE arg = "applied" -> "result"
    [] arg = "notApplied" -> "editsNotApplied"
    [] arg = "peerError" -> "peerError"
    [] OTHER -> "noClientReply"

\* cbLog: the arguments the callback of outbound call id was invoked with so far
Invocations(log, id) == IF id \in DOMAIN log THEN log[id] ELSE <<>>

\* The end of inbound call n in state st: its guard is destroyed and its
\* cancelable context released in the same step.
EndCall(st, n, c) ==
  [st EXCEPT !.calls = Drop(@, n),
             !.ended = @ \cup {[c EXCEPT !.pc = "released"]},
             !.rc = ScopeExit(@, to_string(c.id), c.cookie)]

\* Running the callback of table entry e with arg, and destroying it after:
\* a background callback only records the call; applyEdit's callback replies
\* to its inbound call through the guard it owns, and its destruction
\* destroys the guard and the cancelable context it holds.
RunCallback(st, e, arg) ==
  LET log == Put(st.log, e.id, Invocations(st.log, e.id) \o <<arg>>)
  IN IF e.cb = BgCB
       THEN [st EXCEPT !.log = log]
       ELSE LET c == st.calls[e.cb]
                c1 == ReplyOnceDtor(ReplyOnceCall(c, ApplyEditReply(arg)), st.destroying)
            IN EndCall([st EXCEPT !.log = log], e.cb, c1)

\* Destroying the callback of table entry e without running it
DropCallback(st, e) ==
  IF e.cb = BgCB
    THEN st
    ELSE EndCall(st, e.cb, ReplyOnceDtor(st.calls[e.cb], st.destroying))

\* Destroying every callback left in the table (the order does not matter:
\* each scope-exit removes its own registry entry only)
DropAll(st, rcb) ==
  LET owners == {rcb[k].cb : k \in 1..Len(rcb)} \ {BgCB}
      gone == {st.calls[n] : n \in owners}
      kept == {x \in DOMAIN st.rc :
                 \A c \in gone : ScopeExit(st.rc, to_string(c.id), c.cookie) = st.rc
                                 \/ to_string(c.id) # x}
  IN [st EXCEPT
        !.calls = [n \in DOMAIN st.calls \ owners |-> st.calls[n]],
        !.ended = @ \cup {[ReplyOnceDtor(c, st.destroying) EXCEPT !.pc = "released"] :
                            c \in gone},
        !.rc = [x \in kept |-> st.rc[x]]]

\* the part of the state the callbacks act on; ended starts empty in each step
Here ==
  [calls |-> calls, ended |-> {}, rc |-> RequestCancelers, log |-> cbLog,
   destroying |-> IsBeingDestroyed]

\* a thread that is not inside ReplyOnce::operator()
NoSend == [g |-> 0, payload |-> ""]

Op(op, call, id, arg) == [op |-> op, call |-> call, id |-> id, arg |-> arg]

(***************************************************************************)
(* The parameters of initialize that the endpoint's options are derived    *)
(* from.  PositionEncodings is NoEncodings (absent) or a list; rootUri is   *)
(* absent, or a URI whose file() is the path, empty for an empty URI.      *)
(***************************************************************************)
NoEncoding == "none"       \* std::nullopt of std::optional<OffsetEncoding>
NoEncodings == <<"absent">>
NoURI == [present |-> FALSE, scheme |-> "", body |-> ""]
URIForFile(path) == [present |-> TRUE, scheme |-> "file", body |-> path]
\* URIForFile::file()
file(uri) == uri.body

\* the parameters of a message the dispatcher does not read
NoParams == [PositionEncodings |-> NoEncodings, rootUri |-> NoURI, rootPath |-> ""]

\* the parameters of workspace/executeCommand: the command, and for a rename
\* whether the rename behind it fails
CommandParams ==
  [command : {"clangd.applyFix", "clangd.applyRename"}, renameFails : BOOLEAN]
ApplyFixParams == [command |-> "clangd.applyFix", renameFails |-> FALSE]

\* the parameters of the calls of a peer that applies fixes only
ParamsOf(Method) ==
  IF Method = "workspace/executeCommand" THEN ApplyFixParams ELSE NoParams

\* what dereferencing an Expected does: nothing special if it holds a value;
\* if it holds none the program goes on with an indeterminate value or crashes
Dereference(failed) == IF failed THEN {"garbage", "crash"} ELSE {"value"}

InitializeParams ==
  [PositionEncodings : {NoEncodings, <<>>, <<"utf-8">>, <<"unsupported", "utf-32">>},
   rootUri : {NoURI, URIForFile(""), URIForFile("/a"), URIForFile("/b")},
   rootPath : {"", "/p"}]

\* the first supported encoding of the list, UTF16 if there is none
FirstSupported(Encodings) ==
  LET ok == {i \in 1..Len(Encodings) : Encodings[i] # "unsupported"}
  IN IF ok = {}
       THEN "utf-16"
       ELSE Encodings[CHOOSE i \in ok : \A j \in ok : i <= j]

\* ClangdLSPServer::onInitialize, the part above the test of Server
onInitializeOpts(opts, Params) ==
  [Encoding |->
     IF Params.PositionEncodings # NoEncodings /\ opts.Encoding = NoEncoding
       THEN FirstSupported(Params.PositionEncodings)
       ELSE opts.Encoding,
   WorkspaceRoot |->
     IF Params.rootUri.present /\ file(Params.rootUri) # ""
       THEN file(Params.rootUri)
       ELSE IF Params.rootPath # "" THEN Params.rootPath ELSE opts.WorkspaceRoot]

\* MessageHandler::handlerContext: the offset encoding handlers run with
handlerContext == IF Opts.Encoding = NoEncoding THEN "utf-16" ELSE Opts.Encoding

(***************************************************************************)
(* Init: the state the constructor leaves.                                 *)
(***************************************************************************)
Init ==
  /\ Server = FALSE
  /\ MethodHandlers = ConstructorMethods
  /\ NotificationHandlers = {}
  /\ ShutdownRequestReceived = FALSE
  /\ IsBeingDestroyed = FALSE
  /\ phase = "running"
  /\ ncalls = 0
  /\ calls = EmptyMap
  /\ ended = {}
  /\ RequestCancelers = EmptyMap
  /\ NextRequestCookie = 0
  /\ ReplyCallbacks = <<>>
  /\ NextCallID = 0
  /\ workers = [w \in Workers |-> [pc |-> "idle", id |-> NoOut, oldest |-> NoEntry]]
  /\ cbLog = EmptyMap
  /\ lastCallFrame = NoOut
  /\ last = Op("init", 0, NoID, "")
  /\ guards = <<>>
  /\ sending = [w \in Workers |-> NoSend]
  /\ invoked = <<>>
  /\ frames = <<>>
  /\ drafts = {}
  /\ LastSemanticTokens = EmptyMap
  /\ DiagRefMap = EmptyMap
  /\ tokenReqs = {}
  /\ ntok = 0
  /\ docLast = [op |-> "init"]
  /\ owner = [L \in Mutexes |-> "free"]
  /\ pcs = [t \in Threads |-> <<>>]
  /\ heldCB = [t \in Threads |-> NoEntry]
  /\ inWrite = {}
  /\ BackgroundIndexProgressState = "Unsupported"
  /\ BackgroundIndexSkipCreate = FALSE
  /\ PendingBackgroundIndexProgress = "idle"
  /\ progressSent = <<>>
  /\ bound = FALSE
  /\ nlock = 0
  /\ incS = <<>>
  /\ incT = <<>>
  /\ runResult = "running"
  /\ Opts = [Encoding |-> NoEncoding, WorkspaceRoot |-> ""]

(***************************************************************************)
(* MessageHandler::onCall, with the handler it runs on the main thread.    *)
(***************************************************************************)
NewCall(n, Method, ID, Cookie) ==
  [n |-> n, id |-> ID, method |-> Method, cookie |-> Cookie, pc |-> "dispatch",
   out |-> NoOut, Replied |-> FALSE, cancelled |-> FALSE, hit |-> FALSE,
   torn |-> FALSE, sent |-> <<>>]

\* a call answered before onCall returns: the guard and the context end with it
Answered(c, payload) ==
  [ReplyOnceDtor(ReplyOnceCall(c, payload), IsBeingDestroyed) EXCEPT !.pc = "released"]

\* an onInitialize without the test for a server that exists already
onInitialize_NoCheck(c) ==
  /\ ended' = {Answered(c, "result")}
  /\ Server' = TRUE
  /\ MethodHandlers' = MethodHandlers \cup bindMethods.methods
  /\ NotificationHandlers' = NotificationHandlers \cup bindMethods.notifications

\* ClangdLSPServer::onInitialize
onInitialize(c) ==
  IF Server
    THEN /\ ended' = {Answered(c, "InvalidRequest")}
         /\ UNCHANGED <<Server, MethodHandlers, NotificationHandlers>>
    ELSE /\ ended' = {Answered(c, "result")}
         /\ Server' = TRUE
         /\ MethodHandlers' = MethodHandlers \cup bindMethods.methods
         /\ NotificationHandlers' = NotificationHandlers \cup bindMethods.notifications

\* ClangdLSPServer::onShutdown
onShutdown(c) ==
  /\ ShutdownRequestReceived' = TRUE
  /\ ended' = {Answered(c, "result")}

\* an onCall that answers every unbound method as if initialize had not run
OnCall_NoFallback(Method, Params, ID) ==
  /\ phase = "running"
  /\ LET n == ncalls + 1
         Cookie == NextRequestCookie
         StrID == to_string(ID)
         c == NewCall(n, Method, ID, Cookie)
         registered == Register(RequestCancelers, StrID, n, Cookie)
         released == ScopeExit(registered, StrID, Cookie)
         failed == /\ Method = "workspace/executeCommand"
                   /\ Method \in MethodHandlers
                   /\ Params.command = "clangd.applyRename"
                   /\ Params.renameFails
         \* onCommandApplyRename: Reply(Edit.takeError()), with no return
         c0 == IF failed THEN ReplyOnceCall(c, "renameError") ELSE c
     IN /\ ncalls' = n
        /\ NextRequestCookie' = NextRequestCookie + 1
        /\ last' = Op("onCall", n, ID, Method)
        /\ Opts' = IF Method = "initialize" THEN onInitializeOpts(Opts, Params) ELSE Opts
        \* *Edit of an Expected that holds no value is undefined
        /\ \E ub \in Dereference(failed) :
             /\ phase' = IF ub = "crash" THEN "crashed" ELSE phase
             /\ IF Method \in MethodHandlers
                  THEN CASE Method = "initialize" ->
                              /\ onInitialize(c)
                              /\ RequestCancelers' = released
                              /\ UNCHANGED <<ShutdownRequestReceived, calls, ReplyCallbacks,
                                             NextCallID, cbLog, lastCallFrame>>
                         [] Method = "shutdown" ->
                              /\ onShutdown(c)
                              /\ RequestCancelers' = released
                              /\ UNCHANGED <<Server, MethodHandlers, NotificationHandlers, calls,
                                             ReplyCallbacks, NextCallID, cbLog, lastCallFrame>>
                         [] Method = "textDocument/hover" ->
                              \* the backend takes the guard and the context to a worker
                              /\ calls' = Put(calls, n, [c EXCEPT !.pc = "handler"])
                              /\ ended' = {}
                              /\ RequestCancelers' = registered
                              /\ UNCHANGED <<Server, MethodHandlers, NotificationHandlers,
                                             ShutdownRequestReceived, ReplyCallbacks,
                                             NextCallID, cbLog, lastCallFrame>>
                         [] OTHER ->
                              \* onCommand: onCommandApplyEdit or onCommandApplyRename
                              \* -> applyEdit -> callMethod
                              IF ub = "crash"
                                THEN /\ ended' = {[c0 EXCEPT !.pc = "crashed"]}
                                     /\ RequestCancelers' = registered
                                     /\ UNCHANGED <<Server, MethodHandlers,
                                                    NotificationHandlers,
                                                    ShutdownRequestReceived, calls,
                                                    ReplyCallbacks, NextCallID, cbLog,
                                                    lastCallFrame>>
                                ELSE
                              LET b == bindReply(ReplyCallbacks, NextCallID, n)
                                  st0 == [calls |-> Put(calls, n, [c0 EXCEPT !.pc = "outbound",
                                                                            !.out = b.ID]),
                                          ended |-> {},
                                          rc |-> registered,
                                          log |-> cbLog,
                                          destroying |-> IsBeingDestroyed]
                                  st1 == IF b.OldestCB = NoEntry
                                           THEN st0
                                           ELSE RunCallback(st0, b.OldestCB, "evicted")
                              IN /\ NextCallID' = NextCallID + 1
                                 /\ ReplyCallbacks' = b.ReplyCallbacks
                                 /\ calls' = st1.calls
                                 /\ ended' = st1.ended
                                 /\ RequestCancelers' = st1.rc
                                 /\ cbLog' = st1.log
                                 /\ lastCallFrame' = b.ID
                                 /\ UNCHANGED <<Server, MethodHandlers, NotificationHandlers,
                                                ShutdownRequestReceived>>
                  ELSE /\ IF ~Server
                            THEN ended' = {Answered(c, "ServerNotInitialized")}
                            ELSE ended' = {Answered(c, "ServerNotInitialized")}
                       /\ RequestCancelers' = released
                       /\ UNCHANGED <<Server, MethodHandlers, NotificationHandlers,
                                      ShutdownRequestReceived, calls, ReplyCallbacks, NextCallID,
                                      cbLog, lastCallFrame>>
  /\ UNCHANGED <<IsBeingDestroyed, workers>>
  /\ UNCHANGED callVars

\* a dispatcher that hands every call the same cookie
OnCall_SameCookie(Method, Params, ID) ==
  /\ phase = "running"
  /\ LET n == ncalls + 1
         Cookie == NextRequestCookie
         StrID == to_string(ID)
         c == NewCall(n, Method, ID, Cookie)
         registered == Register(RequestCancelers, StrID, n, Cookie)
         released == ScopeExit(registered, StrID, Cookie)
         failed == /\ Method = "workspace/executeCommand"
                   /\ Method \in MethodHandlers
                   /\ Params.command = "clangd.applyRename"
                   /\ Params.renameFails
         \* onCommandApplyRename: Reply(Edit.takeError()), with no return
         c0 == IF failed THEN ReplyOnceCall(c, "renameError") ELSE c
     IN /\ ncalls' = n
        /\ NextRequestCookie' = NextRequestCookie
        /\ last' = Op("onCall", n, ID, Method)
        /\ Opts' = IF Method = "initialize" THEN onInitializeOpts(Opts, Params) ELSE Opts
        \* *Edit of an Expected that holds no value is undefined
        /\ \E ub \in Dereference(failed) :
             /\ phase' = IF ub = "crash" THEN "crashed" ELSE phase
             /\ IF Method \in MethodHandlers
                  THEN CASE Method = "initialize" ->
                              /\ onInitialize(c)
                              /\ RequestCancelers' = released
                              /\ UNCHANGED <<ShutdownRequestReceived, calls, ReplyCallbacks,
                                             NextCallID, cbLog, lastCallFrame>>
                         [] Method = "shutdown" ->
                              /\ onShutdown(c)
                              /\ RequestCancelers' = released
                              /\ UNCHANGED <<Server, MethodHandlers, NotificationHandlers, calls,
                                             ReplyCallbacks, NextCallID, cbLog, lastCallFrame>>
                         [] Method = "textDocument/hover" ->
                              \* the backend takes the guard and the context to a worker
                              /\ calls' = Put(calls, n, [c EXCEPT !.pc = "handler"])
                              /\ ended' = {}
                              /\ RequestCancelers' = registered
                              /\ UNCHANGED <<Server, MethodHandlers, NotificationHandlers,
                                             ShutdownRequestReceived, ReplyCallbacks,
                                             NextCallID, cbLog, lastCallFrame>>
                         [] OTHER ->
                              \* onCommand: onCommandApplyEdit or onCommandApplyRename
                              \* -> applyEdit -> callMethod
                              IF ub = "crash"
                                THEN /\ ended' = {[c0 EXCEPT !.pc = "crashed"]}
                                     /\ RequestCancelers' = registered
                                     /\ UNCHANGED <<Server, MethodHandlers,
                                                    NotificationHandlers,
                                                    ShutdownRequestReceived, calls,
                                                    ReplyCallbacks, NextCallID, cbLog,
                                                    lastCallFrame>>
                                ELSE
                              LET b == bindReply(ReplyCallbacks, NextCallID, n)
                                  st0 == [calls |-> Put(calls, n, [c0 EXCEPT !.pc = "outbound",
                                                                            !.out = b.ID]),
                                          ended |-> {},
                                          rc |-> registered,
                                          log |-> cbLog,
                                          destroying |-> IsBeingDestroyed]
                                  st1 == IF b.OldestCB = NoEntry
                                           THEN st0
                                           ELSE RunCallback(st0, b.OldestCB, "evicted")
                              IN /\ NextCallID' = NextCallID + 1
                                 /\ ReplyCallbacks' = b.ReplyCallbacks
                                 /\ calls' = st1.calls
                                 /\ ended' = st1.ended
                                 /\ RequestCancelers' = st1.rc
                                 /\ cbLog' = st1.log
                                 /\ lastCallFrame' = b.ID
                                 /\ UNCHANGED <<Server, MethodHandlers, NotificationHandlers,
                                                ShutdownRequestReceived>>
                  ELSE /\ IF ~Server
                            THEN ended' = {Answered(c, "ServerNotInitialized")}
                            ELSE ended' = {Answered(c, "MethodNotFound")}
                       /\ RequestCancelers' = released
                       /\ UNCHANGED <<Server, MethodHandlers, NotificationHandlers,
                                      ShutdownRequestReceived, calls, ReplyCallbacks, NextCallID,
                                      cbLog, lastCallFrame>>
  /\ UNCHANGED <<IsBeingDestroyed, workers>>
  /\ UNCHANGED callVars

\* MessageHandler::onCall
OnCall(Method, Params, ID) ==
  /\ phase = "running"
  /\ LET n == ncalls + 1
         Cookie == NextRequestCookie
         StrID == to_string(ID)
         c == NewCall(n, Method, ID, Cookie)
         registered == Register(RequestCancelers, StrID, n, Cookie)
         released == ScopeExit(registered, StrID, Cookie)
         failed == /\ Method = "workspace/executeCommand"
                   /\ Method \in MethodHandlers
                   /\ Params.command = "clangd.applyRename"
                   /\ Params.renameFails
         \* onCommandApplyRename: Reply(Edit.takeError()), with no return
         c0 == IF failed THEN ReplyOnceCall(c, "renameError") ELSE c
     IN /\ ncalls' = n
        /\ NextRequestCookie' = NextRequestCookie + 1
        /\ last' = Op("onCall", n, ID, Method)
        /\ Opts' = IF Method = "initialize" THEN onInitializeOpts(Opts, Params) ELSE Opts
        \* *Edit of an Expected that holds no value is undefined
        /\ \E ub \in Dereference(failed) :
             /\ phase' = IF ub = "crash" THEN "crashed" ELSE phase
             /\ IF Method \in MethodHandlers
                  THEN CASE Method = "initialize" ->
                              /\ onInitialize(c)
                              /\ RequestCancelers' = released
                              /\ UNCHANGED <<ShutdownRequestReceived, calls, ReplyCallbacks,
                                             NextCallID, cbLog, lastCallFrame>>
                         [] Method = "shutdown" ->
                              /\ onShutdown(c)
                              /\ RequestCancelers' = released
                              /\ UNCHANGED <<Server, MethodHandlers, NotificationHandlers, calls,
                                             ReplyCallbacks, NextCallID, cbLog, lastCallFrame>>
                         [] Method = "textDocument/hover" ->
                              \* the backend takes the guard and the context to a worker
                              /\ calls' = Put(calls, n, [c EXCEPT !.pc = "handler"])
                              /\ ended' = {}
                              /\ RequestCancelers' = registered
                              /\ UNCHANGED <<Server, MethodHandlers, NotificationHandlers,
                                             ShutdownRequestReceived, ReplyCallbacks,
                                             NextCallID, cbLog, lastCallFrame>>
                         [] OTHER ->
                              \* onCommand: onCommandApplyEdit or onCommandApplyRename
                              \* -> applyEdit -> callMethod
                              IF ub = "crash"
                                THEN /\ ended' = {[c0 EXCEPT !.pc = "crashed"]}
                                     /\ RequestCancelers' = registered
                                     /\ UNCHANGED <<Server, MethodHandlers,
                                                    NotificationHandlers,
                                                    ShutdownRequestReceived, calls,
                                                    ReplyCallbacks, NextCallID, cbLog,
                                                    lastCallFrame>>
                                ELSE
                              LET b == bindReply(ReplyCallbacks, NextCallID, n)
                                  st0 == [calls |-> Put(calls, n, [c0 EXCEPT !.pc = "outbound",
                                                                            !.out = b.ID]),
                                          ended |-> {},
                                          rc |-> registered,
                                          log |-> cbLog,
                                          destroying |-> IsBeingDestroyed]
                                  st1 == IF b.OldestCB = NoEntry
                                           THEN st0
                                           ELSE RunCallback(st0, b.OldestCB, "evicted")
                              IN /\ NextCallID' = NextCallID + 1
                                 /\ ReplyCallbacks' = b.ReplyCallbacks
                                 /\ calls' = st1.calls
                                 /\ ended' = st1.ended
                                 /\ RequestCancelers' = st1.rc
                                 /\ cbLog' = st1.log
                                 /\ lastCallFrame' = b.ID
                                 /\ UNCHANGED <<Server, MethodHandlers, NotificationHandlers,
                                                ShutdownRequestReceived>>
                  ELSE /\ IF ~Server
                            THEN ended' = {Answered(c, "ServerNotInitialized")}
                            ELSE ended' = {Answered(c, "MethodNotFound")}
                       /\ RequestCancelers' = released
                       /\ UNCHANGED <<Server, MethodHandlers, NotificationHandlers,
                                      ShutdownRequestReceived, calls, ReplyCallbacks, NextCallID,
                                      cbLog, lastCallFrame>>
  /\ UNCHANGED <<IsBeingDestroyed, workers>>
  /\ UNCHANGED callVars

(***************************************************************************)
(* MessageHandler::onNotify.  Params is the id of a $/cancelRequest (NoID  *)
(* when the message carries none); other notifications carry nothing the   *)
(* model reads.                                                            *)
(***************************************************************************)
InFlight(c) == c.pc \in {"handler", "outbound"}

\* a cancellation that answers the call itself, beside its handler
onCancel_Replies(cs, rc, Params) ==
  [calls |-> [n \in DOMAIN cs |->
                IF n \in Cancelled(rc, Params)
                  THEN [cs[n] EXCEPT !.cancelled = TRUE, !.hit = @ \/ InFlight(cs[n]),
                                     !.sent = Append(@, "RequestCancelled")]
                  ELSE cs[n]],
   rc |-> rc]

\* a cancellation that erases the registry entry it used
onCancel_Erases(cs, rc, Params) ==
  [calls |-> [n \in DOMAIN cs |->
                IF n \in Cancelled(rc, Params)
                  THEN [cs[n] EXCEPT !.cancelled = TRUE, !.hit = @ \/ InFlight(cs[n])]
                  ELSE cs[n]],
   rc |-> IF Cancelled(rc, Params) = {} THEN rc ELSE Drop(rc, to_string(Params))]

\* onCancel: invoking a canceler sets the cancellation flag of its task;
\* the registry is read, not written
onCancel(cs, rc, Params) ==
  [calls |-> [n \in DOMAIN cs |->
                IF n \in Cancelled(rc, Params)
                  THEN [cs[n] EXCEPT !.cancelled = TRUE, !.hit = @ \/ InFlight(cs[n])]
                  ELSE cs[n]],
   rc |-> rc]

\* a run that reports success whenever the loop returned no error
run_IgnoresShutdown(Err, Shutdown) == IF ~Err THEN "success" ELSE "failure"

\* ClangdLSPServer::run, after Transp.loop returned: CleanExit && ShutdownRequestReceived
run(Err, Shutdown) == IF ~Err /\ Shutdown THEN "success" ELSE "failure"

\* the record of a notification: what arrived and the branch onNotify took
NotifyOp(Params, Method, route) ==
  [op |-> "onNotify", call |-> 0, id |-> Params, arg |-> Method, route |-> route]

\* a routing that looks for the cancellation message before the Server test
onNotifyRoute_CancelFirst(Method, Handlers, Initialized) ==
  CASE Method = "exit" -> "exit"
    [] Method \in Handlers -> "handler"
    [] Method = "$/cancelRequest" -> "onCancel"
    [] ~Initialized -> "beforeInit"
    [] OTHER -> "unhandled"

\* onNotify: the branch taken, in the order of the tests
onNotifyRoute(Method, Handlers, Initialized) ==
  IF Method = "exit"
    THEN "exit"
    ELSE IF Method \in Handlers
           THEN "handler"
           ELSE IF ~Initialized
                  THEN "beforeInit"
                  ELSE IF Method = "$/cancelRequest" THEN "onCancel" ELSE "unhandled"

\* a dispatcher that treats exit as any other notification before initialization
OnNotify_ExitAfterInit(Method, Params) ==
  /\ phase = "running"
  /\ Method # "$/cancelRequest" => Params = NoID
  /\ LET route == IF Method = "exit" /\ ~Server
                    THEN "beforeInit"
                    ELSE onNotifyRoute(Method, NotificationHandlers, Server)
     IN /\ last' = NotifyOp(Params, Method, route)
        /\ ended' = {}
        /\ IF route = "exit"
             THEN /\ phase' = "stopped"
                  \* the loop returns no error
                  /\ runResult' = run(FALSE, ShutdownRequestReceived)
                  /\ UNCHANGED <<calls, RequestCancelers>>
             ELSE /\ UNCHANGED <<phase, runResult>>
                  /\ IF route = "onCancel"
                       THEN LET st == onCancel(calls, RequestCancelers, Params)
                            IN /\ calls' = st.calls
                               /\ RequestCancelers' = st.rc
                       \* onInitialized does nothing; the other routes only log
                       ELSE UNCHANGED <<calls, RequestCancelers>>
  /\ UNCHANGED <<Server, MethodHandlers, NotificationHandlers, ShutdownRequestReceived,
                 IsBeingDestroyed, ncalls, NextRequestCookie, ReplyCallbacks, NextCallID,
                 workers, cbLog, lastCallFrame>>
  /\ UNCHANGED sideVars

\* MessageHandler::onNotify
OnNotify(Method, Params) ==
  /\ phase = "running"
  /\ Method # "$/cancelRequest" => Params = NoID
  /\ LET route == onNotifyRoute(Method, NotificationHandlers, Server)
     IN /\ last' = NotifyOp(Params, Method, route)
        /\ ended' = {}
        /\ IF route = "exit"
             THEN /\ phase' = "stopped"
                  \* the loop returns no error
                  /\ runResult' = run(FALSE, ShutdownRequestReceived)
                  /\ UNCHANGED <<calls, RequestCancelers>>
             ELSE /\ UNCHANGED <<phase, runResult>>
                  /\ IF route = "onCancel"
                       THEN LET st == onCancel(calls, RequestCancelers, Params)
                            IN /\ calls' = st.calls
                               /\ RequestCancelers' = st.rc
                       \* onInitialized does nothing; the other routes only log
                       ELSE UNCHANGED <<calls, RequestCancelers>>
  /\ UNCHANGED <<Server, MethodHandlers, NotificationHandlers, ShutdownRequestReceived,
                 IsBeingDestroyed, ncalls, NextRequestCookie, ReplyCallbacks, NextCallID,
                 workers, cbLog, lastCallFrame>>
  /\ UNCHANGED sideVars

(***************************************************************************)
(* MessageHandler::onReply.  Result is what the peer answered: the edit    *)
(* was applied, was not applied, or an error.                              *)
(***************************************************************************)
ReplyResults == {"applied", "notApplied", "peerError"}

OnReply(ID, Result) ==
  /\ phase = "running"
  /\ LET k == FindReply(ReplyCallbacks, ID)
     IN IF k = 0
          THEN /\ last' = Op("onReply", 0, ID, "unknown")
               /\ ended' = {}
               /\ UNCHANGED <<calls, RequestCancelers, ReplyCallbacks, cbLog>>
          ELSE LET st == RunCallback(Here, ReplyCallbacks[k], Result)
               IN /\ last' = Op("onReply", ReplyCallbacks[k].cb, ID, Result)
                  /\ ReplyCallbacks' = EraseAt(ReplyCallbacks, k)
                  /\ calls' = st.calls
                  /\ ended' = st.ended
                  /\ RequestCancelers' = st.rc
                  /\ cbLog' = st.log
  /\ UNCHANGED <<Server, MethodHandlers, NotificationHandlers, ShutdownRequestReceived,
                 IsBeingDestroyed, phase, ncalls, NextRequestCookie, NextCallID, workers,
                 lastCallFrame>>
  /\ UNCHANGED auxVars

(***************************************************************************)
(* A backend handler ending on its worker thread: it replies through the   *)
(* guard (or drops it), the guard is destroyed, and later the cancelable   *)
(* context the task held is released.                                      *)
(***************************************************************************)
\* what a handler does with its guard: it replies (a result or an error of its
\* own, one payload here), replies that the request was cancelled, or drops it
Outcomes == {"result", "RequestCancelled", "drop"}

HandlerFinish(n, outcome) ==
  /\ phase # "destroyed"
  /\ n \in DOMAIN calls
  /\ calls[n].pc = "handler"
  /\ outcome = "RequestCancelled" => calls[n].cancelled
  /\ LET c1 == IF outcome = "drop" THEN calls[n] ELSE ReplyOnceCall(calls[n], outcome)
         c2 == ReplyOnceDtor(c1, IsBeingDestroyed)
     IN calls' = [calls EXCEPT ![n] = [c2 EXCEPT !.pc = "finished"]]
  /\ ended' = {}
  /\ last' = Op("finish", n, calls[n].id, outcome)
  /\ UNCHANGED <<Server, MethodHandlers, NotificationHandlers, ShutdownRequestReceived,
                 IsBeingDestroyed, phase, ncalls, RequestCancelers, NextRequestCookie,
                 ReplyCallbacks, NextCallID, workers, cbLog, lastCallFrame>>
  /\ UNCHANGED auxVars

Release(n) ==
  /\ phase # "destroyed"
  /\ n \in DOMAIN calls
  /\ calls[n].pc = "finished"
  /\ LET st == EndCall(Here, n, calls[n])
     IN /\ calls' = st.calls
        /\ ended' = st.ended
        /\ RequestCancelers' = st.rc
  /\ last' = Op("release", n, calls[n].id, "")
  /\ UNCHANGED <<Server, MethodHandlers, NotificationHandlers, ShutdownRequestReceived,
                 IsBeingDestroyed, phase, ncalls, NextRequestCookie, ReplyCallbacks,
                 NextCallID, workers, cbLog, lastCallFrame>>
  /\ UNCHANGED auxVars

(***************************************************************************)
(* ClangdLSPServer::callMethod on a worker thread, for an outbound call    *)
(* that belongs to no inbound call: bindReply's locked region is one step, *)
(* the rest (the evicted callback, then the frame under TranspWriter) the  *)
(* next.                                                                   *)
(***************************************************************************)
CallMethodBind(w) ==
  /\ phase # "destroyed"
  /\ Server
  /\ workers[w].pc = "idle"
  /\ LET b == bindReply(ReplyCallbacks, NextCallID, BgCB)
     IN /\ ReplyCallbacks' = b.ReplyCallbacks
        /\ workers' = [workers EXCEPT ![w] = [pc |-> "bound", id |-> b.ID,
                                              oldest |-> b.OldestCB]]
        /\ last' = Op("bindReply", b.OldestCB.cb, JInt(b.ID),
                      IF b.OldestCB = NoEntry THEN "" ELSE "evict")
  /\ NextCallID' = NextCallID + 1
  /\ ended' = {}
  /\ UNCHANGED <<Server, MethodHandlers, NotificationHandlers, ShutdownRequestReceived,
                 IsBeingDestroyed, phase, ncalls, calls, RequestCancelers,
                 NextRequestCookie, cbLog, lastCallFrame>>
  /\ UNCHANGED auxVars

CallMethodWrite(w) ==
  /\ phase # "destroyed"
  /\ workers[w].pc = "bound"
  /\ LET st == IF workers[w].oldest = NoEntry
                 THEN Here
                 ELSE RunCallback(Here, workers[w].oldest, "evicted")
     IN /\ calls' = st.calls
        /\ ended' = st.ended
        /\ RequestCancelers' = st.rc
        /\ cbLog' = st.log
  /\ lastCallFrame' = workers[w].id
  /\ workers' = [workers EXCEPT ![w] = [pc |-> "idle", id |-> NoOut, oldest |-> NoEntry]]
  /\ last' = Op("callMethod", workers[w].oldest.cb, JInt(workers[w].id),
                IF workers[w].oldest = NoEntry THEN "" ELSE "evicted")
  /\ UNCHANGED <<Server, MethodHandlers, NotificationHandlers, ShutdownRequestReceived,
                 IsBeingDestroyed, phase, ncalls, NextRequestCookie, ReplyCallbacks,
                 NextCallID>>
  /\ UNCHANGED auxVars

(***************************************************************************)
(* The end of the run: the transport's loop returns (the stream closed or  *)
(* failed; the exit notification is in OnNotify), and the server object is *)
(* destroyed.  ~ClangdLSPServer sets IsBeingDestroyed and resets Server,   *)
(* which blocks on the worker threads; the members are destroyed after,    *)
(* with them the callbacks left in ReplyCallbacks.                         *)
(***************************************************************************)
StreamClose ==
  /\ phase = "running"
  /\ phase' = "stopped"
  /\ ended' = {}
  /\ \E Err \in BOOLEAN :   \* Transp.loop returns an error or none
       /\ last' = Op("streamClose", 0, NoID, IF Err THEN "error" ELSE "")
       /\ runResult' = run(Err, ShutdownRequestReceived)
  /\ UNCHANGED <<Server, MethodHandlers, NotificationHandlers, ShutdownRequestReceived,
                 IsBeingDestroyed, ncalls, calls, RequestCancelers, NextRequestCookie,
                 ReplyCallbacks, NextCallID, workers, cbLog, lastCallFrame>>
  /\ UNCHANGED sideVars

DestroyBegin ==
  /\ phase = "stopped"
  /\ phase' = "destroying"
  /\ IsBeingDestroyed' = TRUE
  /\ ended' = {}
  /\ last' = Op("destroyBegin", 0, NoID, "")
  /\ UNCHANGED <<Server, MethodHandlers, NotificationHandlers, ShutdownRequestReceived,
                 ncalls, calls, RequestCancelers, NextRequestCookie, ReplyCallbacks,
                 NextCallID, workers, cbLog, lastCallFrame>>
  /\ UNCHANGED auxVars

WorkersDone ==
  /\ \A w \in Workers : workers[w].pc = "idle"
  /\ \A n \in DOMAIN calls : calls[n].pc \notin {"handler", "finished"}

DestroyEnd ==
  /\ phase = "destroying"
  /\ WorkersDone
  /\ phase' = "destroyed"
  /\ Server' = FALSE
  /\ LET st == DropAll(Here, ReplyCallbacks)
     IN /\ calls' = st.calls
        /\ ended' = st.ended
        /\ RequestCancelers' = st.rc
  /\ ReplyCallbacks' = <<>>
  /\ last' = Op("destroyEnd", 0, NoID, "")
  /\ UNCHANGED <<MethodHandlers, NotificationHandlers, ShutdownRequestReceived,
                 IsBeingDestroyed, ncalls, NextRequestCookie, NextCallID, workers, cbLog,
                 lastCallFrame>>
  /\ UNCHANGED auxVars

(***************************************************************************)
(* Spec: the dispatcher with a peer that sends any calls, notifications    *)
(* and replies, and the teardown.  The outbound calls are those of the     *)
(* apply-fix command.                                                      *)
(***************************************************************************)
ReplyIds == {JInt(0), JInt(1), JStr("0")}

Notify == \E Method \in InboundNotifications, Params \in CallIds \cup {NoID} :
            OnNotify(Method, Params)
Call == \E Method \in InboundMethods, ID \in CallIds :
          ncalls < MaxCalls /\ OnCall(Method, ParamsOf(Method), ID)
\* a reply that finds no callback is logged and dropped whatever its result
Reply == \E ID \in ReplyIds, Result \in ReplyResults :
           /\ FindReply(ReplyCallbacks, ID) = 0 => Result = "peerError"
           /\ OnReply(ID, Result)
Finish == \E n \in DOMAIN calls, outcome \in Outcomes : HandlerFinish(n, outcome)
Released == \E n \in DOMAIN calls : Release(n)

Next ==
  \/ Notify
  \/ Call
  \/ Reply
  \/ Finish
  \/ Released
  \/ StreamClose
  \/ DestroyBegin
  \/ DestroyEnd

Spec == Init /\ [][Next]_vars

(***************************************************************************)
(* TableSpec: the outbound call table at its capacity.  Background threads *)
(* issue outbound calls through callMethod, an apply-fix command adds one  *)
(* that belongs to an inbound call, and the peer answers nothing until     *)
(* SilentBinds calls have been issued; then it answers the oldest call,    *)
(* the newest, an id not issued yet and a string id.                       *)
(***************************************************************************)
TableMethods == {"initialize", "workspace/executeCommand"}
TableReplyIds ==
  {JInt(0), JInt(NextCallID - 1), JInt(NextCallID), JStr("0")}

\* the peer sends nothing from the first outbound call to the SilentBinds-th
Silent == 0 < NextCallID /\ NextCallID < SilentBinds

TableCall == \E Method \in TableMethods :
               /\ ~Silent /\ ncalls < TableCalls /\ NextCallID < MaxBinds
               /\ OnCall(Method, ParamsOf(Method), JInt(5))
\* while the peer is silent the outbound calls are issued one at a time
TableBind == \E w \in Workers :
               /\ NextCallID < MaxBinds
               /\ Silent => \A v \in Workers : workers[v].pc = "idle"
               /\ CallMethodBind(w)
TableWrite == \E w \in Workers : CallMethodWrite(w)
TableReply == \E ID \in TableReplyIds, Result \in ReplyResults :
                ~Silent /\ OnReply(ID, Result)
TableClose == ~Silent /\ StreamClose

TableNext ==
  \/ TableCall
  \/ TableBind
  \/ TableWrite
  \/ TableReply
  \/ TableClose
  \/ DestroyBegin
  \/ DestroyEnd

TableSpec == Init /\ [][TableNext]_vars

(***************************************************************************)
(* GuardSpec: the ReplyOnce guard of one inbound call, field by field.     *)
(* onCall constructs the guard; it is moved into the handler and on into   *)
(* callbacks, invoked by the threads that hold a copy, and destroyed, copy *)
(* by copy, before or after the teardown of the endpoint began.  Inside    *)
(* operator() the exchange on Replied is one step and the write of the     *)
(* frame under TranspWriter another.  A guard record: alive, Replied, ID   *)
(* (NoID once moved from), Server (FALSE for null), and of, the id of the  *)
(* call the guard was constructed for.                                     *)
(***************************************************************************)
\* the guard objects constructed in one run
MaxGuards == 3
\* the invocations of operator() in one run
MaxInvokes == 3

Payloads == {"result", "error"}

\* ReplyOnce::ReplyOnce(ID, Method, Server, TraceArgs)
ReplyOnceNew(ID) ==
  [alive |-> TRUE, Replied |-> FALSE, ID |-> ID, Server |-> TRUE, of |-> ID]

\* a move constructor that leaves Other.Server set
ReplyOnceMove_KeepsServer(g) ==
  [to |-> [alive |-> TRUE, Replied |-> g.Replied, ID |-> g.ID, Server |-> g.Server,
           of |-> g.of],
   from |-> [g EXCEPT !.ID = NoID]]

\* ReplyOnce::ReplyOnce(ReplyOnce &&Other): the new guard and what is left of Other
ReplyOnceMove(g) ==
  [to |-> [alive |-> TRUE, Replied |-> g.Replied, ID |-> g.ID, Server |-> g.Server,
           of |-> g.of],
   from |-> [g EXCEPT !.ID = NoID, !.Server = FALSE]]

\* an exchange that does not look at the old value
ReplyOnceExchange_Blind(g) ==
  [first |-> TRUE, guard |-> [g EXCEPT !.Replied = TRUE]]

\* operator(): Replied.exchange(true); first is the negation of what it returns
ReplyOnceExchange(g) ==
  [first |-> ~g.Replied, guard |-> [g EXCEPT !.Replied = TRUE]]

\* operator(): Transp.reply(std::move(ID), ...)
ReplyOnceFrame(g, payload) == [id |-> g.ID, payload |-> payload]

\* a destructor that only logs
ReplyOnceRecovers_Never(g, destroying) == FALSE

\* ~ReplyOnce: Server && !Server->IsBeingDestroyed && !Replied
ReplyOnceRecovers(g, destroying) == g.Server /\ ~destroying /\ ~g.Replied

Busy(g) == \E w \in Workers : sending[w].g = g

GuardLeaves == UNCHANGED <<mainVars, docVars, lockVars, incVars, runResult, Opts>>

\* onCall: ReplyOnce Reply(ID, Method, &Server, Tracer.Args)
GuardConstruct(ID) ==
  /\ phase = "running"
  /\ guards = <<>>
  /\ guards' = <<ReplyOnceNew(ID)>>
  /\ UNCHANGED <<sending, invoked, frames>>
  /\ GuardLeaves

\* std::move(Reply) into a handler or a callback
GuardMove(g) ==
  /\ Len(guards) < MaxGuards
  /\ guards[g].alive
  /\ ~Busy(g)
  /\ LET m == ReplyOnceMove(guards[g])
     IN guards' = Append([guards EXCEPT ![g] = m.from], m.to)
  /\ UNCHANGED <<sending, invoked, frames>>
  /\ GuardLeaves

\* operator() up to the exchange, on thread w; only the guard that owns the
\* call is invoked (invoking a moved-from guard dereferences a null Server)
GuardInvoke(w, g, payload) ==
  /\ Len(invoked) < MaxInvokes
  /\ sending[w] = NoSend
  /\ guards[g].alive
  /\ guards[g].Server
  /\ LET x == ReplyOnceExchange(guards[g])
     IN /\ guards' = [guards EXCEPT ![g] = x.guard]
        /\ sending' = IF x.first
                        THEN [sending EXCEPT ![w] = [g |-> g, payload |-> payload]]
                        ELSE sending
  /\ invoked' = Append(invoked, payload)
  /\ UNCHANGED frames
  /\ GuardLeaves

\* operator() from the exchange on: the frame, under TranspWriter
GuardWrite(w) ==
  /\ sending[w] # NoSend
  /\ LET g == sending[w].g
     IN /\ frames' = Append(frames, ReplyOnceFrame(guards[g], sending[w].payload))
        /\ guards' = [guards EXCEPT ![g].ID = NoID]
  /\ sending' = [sending EXCEPT ![w] = NoSend]
  /\ UNCHANGED invoked
  /\ GuardLeaves

\* ~ReplyOnce, with the operator() it calls
GuardDestroy(g) ==
  /\ guards[g].alive
  /\ ~Busy(g)
  /\ IF ReplyOnceRecovers(guards[g], IsBeingDestroyed)
       THEN LET x == ReplyOnceExchange(guards[g])
            IN /\ invoked' = Append(invoked, "InternalError")
               /\ frames' = IF x.first
                              THEN Append(frames, ReplyOnceFrame(guards[g], "InternalError"))
                              ELSE frames
               /\ guards' = [guards EXCEPT ![g] = [x.guard EXCEPT !.alive = FALSE,
                                                                  !.ID = NoID]]
       ELSE /\ guards' = [guards EXCEPT ![g].alive = FALSE]
            /\ UNCHANGED <<invoked, frames>>
  /\ UNCHANGED sending
  /\ GuardLeaves

Construct == \E ID \in CallIds : GuardConstruct(ID)
Move == \E g \in 1..Len(guards) : GuardMove(g)
Invoke == \E w \in Workers, g \in 1..Len(guards), payload \in Payloads :
            GuardInvoke(w, g, payload)
Write == \E w \in Workers : GuardWrite(w)
Destroy == \E g \in 1..Len(guards) : GuardDestroy(g)

GuardNext ==
  \/ Construct
  \/ Move
  \/ Invoke
  \/ Write
  \/ Destroy
  \/ StreamClose
  \/ DestroyBegin

GuardSpec == Init /\ [][GuardNext]_vars

(***************************************************************************)
(* DocSpec: the per-document caches.  The peer opens and closes a          *)
(* document and asks for its semantic tokens, in full or as a delta        *)
(* against a version it cites; the backend completes each computation      *)
(* later, on a worker thread, with the tokens or an error, and publishes    *)
(* diagnostics for the documents it tracks.  A version string is the       *)
(* sequence of its decimal digits.  A result of a token computation        *)
(* carries resultId, tokens (<<>> or <<the full list>>) and edits (<<>> or  *)
(* <<the delta>>).                                                         *)
(***************************************************************************)
\* token computations requested in one run
MaxTokenRuns == 3

Files == {"a.cc"}
\* what the backend can compute for a document
TokenLists == {<<1>>, <<1, 2>>}
\* the versions a peer cites in a delta request
CitedVersions == {<<>>, <<1>>, <<2>>}
\* the diagnostics the backend can report: two ranges, one message
Diags == {[Range |-> 1, Message |-> "m"], [Range |-> 2, Message |-> "m"]}

\* an increment that wraps the last digit and carries nothing
increment_NoCarry(S) ==
  IF S = <<>>
    THEN <<1>>
    ELSE SubSeq(S, 1, Len(S) - 1) \o <<(S[Len(S)] + 1) % 10>>

RECURSIVE increment(_)
\* static void increment(std::string &S)
increment(S) ==
  IF S = <<>>
    THEN <<1>>
    ELSE IF S[Len(S)] # 9
           THEN SubSeq(S, 1, Len(S) - 1) \o <<S[Len(S)] + 1>>
           ELSE increment(SubSeq(S, 1, Len(S) - 1)) \o <<0>>

\* LastSemanticTokens[File]: the entry, default-constructed if there is none
LastOf(lst, File) ==
  IF File \in DOMAIN lst THEN lst[File] ELSE [tokens |-> <<>>, resultId |-> <<>>]

\* diffTokens(Old, New): an edit list that transforms Old into New
diffTokens(Old, New) == [from |-> Old, to |-> New]

\* a callback that stores the tokens and returns the version it found
SemanticTokensFull_KeepsVersion(Last, Toks) ==
  [last |-> [tokens |-> Toks, resultId |-> Last.resultId],
   result |-> [resultId |-> Last.resultId, tokens |-> <<Toks>>, edits |-> <<>>]]

\* onSemanticTokens, the callback under SemanticTokensMutex
SemanticTokensFull(Last, Toks) ==
  LET id == increment(Last.resultId)
  IN [last |-> [tokens |-> Toks, resultId |-> id],
      result |-> [resultId |-> id, tokens |-> <<Toks>>, edits |-> <<>>]]

\* a delta callback that answers every request with edits
SemanticTokensDelta_AlwaysEdits(Last, PrevResultID, Toks) ==
  LET id == increment(Last.resultId)
  IN [last |-> [tokens |-> Toks, resultId |-> id],
      result |-> [resultId |-> id, tokens |-> <<>>,
                  edits |-> <<diffTokens(Last.tokens, Toks)>>]]

\* onSemanticTokensDelta, the callback under SemanticTokensMutex
SemanticTokensDelta(Last, PrevResultID, Toks) ==
  LET id == increment(Last.resultId)
  IN [last |-> [tokens |-> Toks, resultId |-> id],
      result |-> IF PrevResultID = Last.resultId
                   THEN [resultId |-> id, tokens |-> <<>>,
                         edits |-> <<diffTokens(Last.tokens, Toks)>>]
                   ELSE [resultId |-> id, tokens |-> <<Toks>>, edits |-> <<>>]]

\* toLSPDiags: the diagnostic shown to the peer for a diagnostic of the main
\* file; its message is the original one followed by the notes and fixes
toLSPDiag(D) == [range |-> D.Range, message |-> <<D.Message, "(fix available)">>]

\* toDiagKey: the identity of a diagnostic the peer echoes
toDiagKey(L) == <<L.range, L.message>>

\* onDiagnosticsReady: LocalDiagMap
LocalDiagMap(Diagnostics) ==
  [k \in {toDiagKey(toLSPDiag(D)) : D \in Diagnostics} |->
     LET D == CHOOSE D \in Diagnostics : toDiagKey(toLSPDiag(D)) = k
     IN [Range |-> D.Range, Message |-> D.Message]]

\* a publication that adds to the table of the document
CacheDiagRefMap_Merges(drm, File, Local) ==
  Put(drm, File,
      [k \in DOMAIN Local \cup (IF File \in DOMAIN drm THEN DOMAIN drm[File] ELSE {}) |->
         IF k \in DOMAIN Local THEN Local[k] ELSE drm[File][k]])

\* onDiagnosticsReady: DiagRefMap[File] = LocalDiagMap
CacheDiagRefMap(drm, File, Local) == Put(drm, File, Local)

NoDiagRef == [Range |-> 0, Message |-> ""]

\* ClangdLSPServer::getDiagRef; NoDiagRef is std::nullopt
getDiagRef(drm, File, L) ==
  IF File \notin DOMAIN drm
    THEN NoDiagRef
    ELSE IF toDiagKey(L) \notin DOMAIN drm[File]
           THEN NoDiagRef
           ELSE drm[File][toDiagKey(L)]

DocOp(op, File) ==
  [op |-> op, file |-> File, delta |-> FALSE, prev |-> <<>>, ok |-> FALSE,
   result |-> [resultId |-> <<>>, tokens |-> <<>>, edits |-> <<>>],
   diags |-> {}, replaced |-> {}]

DocLeaves == UNCHANGED <<mainVars, guardVars, lockVars, incVars, runResult, Opts>>

\* the handlers below are bound by initialize and use the backend it creates
DocInitialize == ncalls = 0 /\ OnCall("initialize", NoParams, JInt(5))

\* onDocumentDidOpen: Server->addDocument
DidOpen(File) ==
  /\ Server /\ phase = "running"
  /\ File \notin drafts
  /\ drafts' = drafts \cup {File}
  /\ docLast' = DocOp("didOpen", File)
  /\ UNCHANGED <<LastSemanticTokens, DiagRefMap, tokenReqs, ntok>>
  /\ DocLeaves

\* onDocumentDidChange; applies tells whether applyChange accepts every
\* content change of the message
DidChange(File, applies) ==
  /\ Server /\ phase = "running"
  /\ drafts' = IF File \in drafts /\ ~applies
                 THEN drafts \ {File}   \* Server->removeDocument(File)
                 ELSE drafts            \* not added: logged; else addDocument
  /\ docLast' = DocOp("didChange", File)
  /\ UNCHANGED <<LastSemanticTokens, DiagRefMap, tokenReqs, ntok>>
  /\ DocLeaves

\* onDocumentDidClose
DidClose(File) ==
  /\ Server /\ phase = "running"
  /\ drafts' = drafts \ {File}
  /\ DiagRefMap' = Drop(DiagRefMap, File)
  /\ LastSemanticTokens' = Drop(LastSemanticTokens, File)
  /\ docLast' = DocOp("didClose", File)
  /\ UNCHANGED <<tokenReqs, ntok>>
  /\ DocLeaves

\* onSemanticTokens and onSemanticTokensDelta up to Server->semanticHighlights:
\* Code is the draft of the document at this time (null if it is not open)
TokensRequest(File, delta, PrevResultID) ==
  /\ Server /\ phase = "running"
  /\ ntok < MaxTokenRuns
  /\ ~delta => PrevResultID = <<>>
  /\ ntok' = ntok + 1
  /\ tokenReqs' = tokenReqs \cup {[n |-> ntok + 1, file |-> File, delta |-> delta,
                                   prev |-> PrevResultID, code |-> File \in drafts]}
  /\ docLast' = [DocOp("request", File) EXCEPT !.delta = delta, !.prev = PrevResultID]
  /\ UNCHANGED <<drafts, LastSemanticTokens, DiagRefMap>>
  /\ DocLeaves

\* a callback that looks its entry up before it tests for the error
TokensFail_CreatesState(r) ==
  /\ r \in tokenReqs
  /\ tokenReqs' = tokenReqs \ {r}
  /\ docLast' = [DocOp("tokens", r.file) EXCEPT !.delta = r.delta, !.prev = r.prev]
  /\ LastSemanticTokens' =
       Put(LastSemanticTokens, r.file, LastOf(LastSemanticTokens, r.file))
  /\ UNCHANGED <<drafts, DiagRefMap, ntok>>
  /\ DocLeaves

\* the callback of semanticHighlights with an error: CB(HT.takeError())
TokensFail(r) ==
  /\ r \in tokenReqs
  /\ tokenReqs' = tokenReqs \ {r}
  /\ docLast' = [DocOp("tokens", r.file) EXCEPT !.delta = r.delta, !.prev = r.prev]
  /\ UNCHANGED <<drafts, LastSemanticTokens, DiagRefMap, ntok>>
  /\ DocLeaves

\* the callback of semanticHighlights with the highlightings.  The backend
\* runs a computation it accepted even if the document is closed meanwhile;
\* it accepts none for a document it does not track.
TokensDone(r, Toks) ==
  /\ r \in tokenReqs
  /\ r.code
  /\ LET Last == LastOf(LastSemanticTokens, r.file)
         x == IF r.delta THEN SemanticTokensDelta(Last, r.prev, Toks)
                         ELSE SemanticTokensFull(Last, Toks)
     IN /\ LastSemanticTokens' = Put(LastSemanticTokens, r.file, x.last)
        /\ docLast' = [DocOp("tokens", r.file) EXCEPT !.delta = r.delta, !.prev = r.prev,
                                                     !.ok = TRUE, !.result = x.result]
  /\ tokenReqs' = tokenReqs \ {r}
  /\ UNCHANGED <<drafts, DiagRefMap, ntok>>
  /\ DocLeaves

\* onDiagnosticsReady; the backend runs no diagnostics callback for a document
\* after removeDocument returned
DiagnosticsReady(File, Diagnostics) ==
  /\ Server
  /\ File \in drafts
  /\ DiagRefMap' = CacheDiagRefMap(DiagRefMap, File, LocalDiagMap(Diagnostics))
  /\ docLast' = [DocOp("diagnostics", File) EXCEPT
                   !.diags = Diagnostics,
                   !.replaced = IF File \in DOMAIN DiagRefMap
                                  THEN DOMAIN DiagRefMap[File] ELSE {}]
  /\ UNCHANGED <<drafts, LastSemanticTokens, tokenReqs, ntok>>
  /\ DocLeaves

Open == \E File \in Files : DidOpen(File)
Change == \E File \in Files, applies \in BOOLEAN : DidChange(File, applies)
Close == \E File \in Files : DidClose(File)
Tokens == \E File \in Files, delta \in BOOLEAN, PrevResultID \in CitedVersions :
            TokensRequest(File, delta, PrevResultID)
Failed == \E r \in tokenReqs : TokensFail(r)
Computed == \E r \in tokenReqs, Toks \in TokenLists : TokensDone(r, Toks)
Published == \E File \in Files, Diagnostics \in SUBSET Diags :
               DiagnosticsReady(File, Diagnostics)

DocNext ==
  \/ DocInitialize
  \/ Open
  \/ Change
  \/ Close
  \/ Tokens
  \/ Failed
  \/ Computed
  \/ Published

DocSpec == Init /\ [][DocNext]_vars

(***************************************************************************)
(* LockSpec: the mutexes.  Each thread runs one operation at a time, as    *)
(* the sequence of its steps: acquiring and releasing a mutex, entering    *)
(* and leaving a write of the transport, the locked regions of bindReply   *)
(* and onReply, the callback taken out of the table, and the steps of the  *)
(* background-index progress.  A step  [op, arg, n]  is taken when it is   *)
(* the head of its thread's sequence; "acquire" waits until the mutex is   *)
(* free (std::mutex is not recursive).  The outbound calls are those of    *)
(* the apply-fix command (callback: the reply to inbound call 1), of the   *)
(* semantic-tokens refresh (callback: nothing) and of the progress bar     *)
(* (callback: ProgressCB).  As in TableSpec the table is filled to its     *)
(* capacity by refresh calls while nothing else starts.                    *)
(***************************************************************************)
\* operations started in one run, the refresh calls that fill the table aside
MaxLockOps == 3

\* the callback of window/workDoneProgress/create
ProgressCB == -2
\* the callback of workspace/applyEdit sent for inbound call 1
ApplyEditCB == 1

I(op, arg, n) == [op |-> op, arg |-> arg, n |-> n]

\* WorkDoneProgressBegin, WorkDoneProgressReport, WorkDoneProgressEnd
ProgressValues == {"begin", "report", "end"}

\* std::lock_guard<std::mutex> Lock(L) around body
Locked(L, body) == <<I("acquire", L, 0)>> \o body \o <<I("release", L, 0)>>

\* Transp.reply, Transp.call, Transp.notify
TranspWrite(kind) == <<I("enter", kind, 0), I("leave", kind, 0)>>

\* ReplyOnce::operator(), first invocation
ReplyOnceWrite == Locked("TranspWriter", TranspWrite("reply"))

\* a notify that writes without the lock
notify_Unlocked(Method, Params) == TranspWrite(Params)

\* ClangdLSPServer::notify; the write carries the kind of the parameters
notify(Method, Params) == Locked("TranspWriter", TranspWrite(Params))

\* bindReply: the locked region, then the evicted callback, if any
bindReplySteps(cb) == Locked("CallMutex", <<I("bind", "", cb)>>) \o <<I("runHeld", "evicted", 0)>>

\* a callMethod that takes the write lock before it binds the reply
callMethod_LocksFirst(cb) ==
  Locked("TranspWriter", bindReplySteps(cb) \o TranspWrite("call"))

\* ClangdLSPServer::callMethod
callMethod(cb) == bindReplySteps(cb) \o Locked("TranspWriter", TranspWrite("call"))

\* cancelableRequestContext: the registration
cancelableRequestContext == Locked("RequestCancelersMutex", <<>>)

\* the scope-exit of cancelableRequestContext
scope_exit == Locked("RequestCancelersMutex", <<>>)

\* onCall for a handler that replies before it returns
onCallSteps == cancelableRequestContext \o ReplyOnceWrite \o scope_exit

\* MessageHandler::onCancel
onCancelSteps == Locked("RequestCancelersMutex", <<>>)

\* MessageHandler::onReply with an integer id
onReplySteps(id, Result) ==
  Locked("CallMutex", <<I("find", "", id)>>) \o <<I("runHeld", Result, 0)>>

\* onDocumentDidClose
onDocumentDidClose ==
  Locked("DiagRefMutex", <<>>) \o Locked("SemanticTokensMutex", <<>>)
    \o notify("textDocument/publishDiagnostics", "diagnostics")

\* the callback of onSemanticTokens on a worker, and the end of the request
onSemanticTokens == Locked("SemanticTokensMutex", <<>>) \o ReplyOnceWrite \o scope_exit

\* onDiagnosticsReady
onDiagnosticsReady ==
  Locked("DiagRefMutex", <<>>) \o notify("textDocument/publishDiagnostics", "diagnostics")

\* a NotifyProgress that begins the bar whatever the state is
NotifyProgress_AlwaysBegins(State, Stats) ==
  notify("$/progress", "begin") \o <<I("set", "Live", 0)>>
    \o (IF Stats = "more"
          THEN notify("$/progress", "report")
          ELSE notify("$/progress", "end") \o <<I("set", "Empty", 0)>>)

\* onBackgroundIndexProgress: NotifyProgress, called under BackgroundIndexProgressMutex
NotifyProgress(State, Stats) ==
  (IF State # "Live" THEN notify("$/progress", "begin") \o <<I("set", "Live", 0)>> ELSE <<>>)
    \o (IF Stats = "more"
          THEN notify("$/progress", "report")
          ELSE notify("$/progress", "end") \o <<I("set", "Empty", 0)>>)

\* onBackgroundIndexProgress: the switch, under BackgroundIndexProgressMutex
ProgressSwitch(State, SkipCreate, Stats) ==
  CASE State = "Unsupported" -> <<>>
    [] State = "Creating" -> <<I("pend", Stats, 0)>>
    [] State = "Empty" ->
         IF SkipCreate
           THEN NotifyProgress(State, Stats)
           ELSE <<I("pend", Stats, 0), I("set", "Creating", 0)>> \o callMethod(ProgressCB)
    [] State = "Live" -> NotifyProgress(State, Stats)

\* ClangdLSPServer::onBackgroundIndexProgress
onBackgroundIndexProgress(Stats) ==
  Locked("BackgroundIndexProgressMutex", <<I("switch", Stats, 0)>>)

\* a callback of CreateWorkDoneProgress that tries again after a failure
CreateDone_Retries(State, Pending, Result) ==
  IF Result = "ok" THEN NotifyProgress(State, Pending) ELSE <<I("set", "Empty", 0)>>

\* the callback of CreateWorkDoneProgress, under BackgroundIndexProgressMutex
CreateDone(State, Pending, Result) ==
  IF Result = "ok" THEN NotifyProgress(State, Pending) ELSE <<I("set", "Unsupported", 0)>>

\* what a callback taken out of ReplyCallbacks does when it is invoked
Callback(cb, Result) ==
  CASE cb = BgCB -> <<>>
    [] cb = ProgressCB ->
         Locked("BackgroundIndexProgressMutex", <<I("created", Result, 0)>>)
    [] OTHER -> ReplyOnceWrite

\* the steps a step unfolds into
Unfold(t, i) ==
  CASE i.op = "runHeld" ->
         IF heldCB[t] = NoEntry
           THEN <<>>
           ELSE Callback(heldCB[t].cb, IF i.arg = "evicted" THEN "error" ELSE i.arg)
    [] i.op = "switch" ->
         ProgressSwitch(BackgroundIndexProgressState, BackgroundIndexSkipCreate, i.arg)
    [] i.op = "created" ->
         CreateDone(BackgroundIndexProgressState, PendingBackgroundIndexProgress, i.arg)
    [] OTHER -> <<>>

LockLeaves ==
  UNCHANGED <<Server, MethodHandlers, NotificationHandlers, ShutdownRequestReceived,
              IsBeingDestroyed, phase, ncalls, calls, ended, RequestCancelers,
              NextRequestCookie, workers, cbLog, lastCallFrame, last, guardVars, docVars,
              incVars, runResult, Opts>>

\* one step of thread t
LockStep(t) ==
  /\ pcs[t] # <<>>
  /\ LET i == Head(pcs[t])
         b == bindReply(ReplyCallbacks, NextCallID, i.n)
         k == FindReply(ReplyCallbacks, JInt(i.n))
     IN /\ i.op = "acquire" => owner[i.arg] = "free"
        /\ owner' = CASE i.op = "acquire" -> [owner EXCEPT ![i.arg] = t]
                      [] i.op = "release" -> [owner EXCEPT ![i.arg] = "free"]
                      [] OTHER -> owner
        /\ inWrite' = CASE i.op = "enter" -> inWrite \cup {t}
                        [] i.op = "leave" -> inWrite \ {t}
                        [] OTHER -> inWrite
        /\ ReplyCallbacks' = CASE i.op = "bind" -> b.ReplyCallbacks
                               [] i.op = "find" /\ k # 0 -> EraseAt(ReplyCallbacks, k)
                               [] OTHER -> ReplyCallbacks
        /\ NextCallID' = IF i.op = "bind" THEN NextCallID + 1 ELSE NextCallID
        /\ heldCB' = [heldCB EXCEPT ![t] =
                        CASE i.op = "bind" -> b.OldestCB
                          [] i.op = "find" -> IF k = 0 THEN NoEntry ELSE ReplyCallbacks[k]
                          [] i.op = "runHeld" -> NoEntry
                          [] OTHER -> @]
        /\ BackgroundIndexProgressState' =
             IF i.op = "set" THEN i.arg ELSE BackgroundIndexProgressState
        /\ PendingBackgroundIndexProgress' =
             IF i.op = "pend" THEN i.arg ELSE PendingBackgroundIndexProgress
        /\ progressSent' = IF i.op = "enter" /\ i.arg \in ProgressValues
                             THEN Append(progressSent, i.arg)
                             ELSE progressSent
        /\ pcs' = [pcs EXCEPT ![t] = Unfold(t, i) \o Tail(pcs[t])]
  /\ UNCHANGED <<BackgroundIndexSkipCreate, bound, nlock>>
  /\ LockLeaves

\* onInitialize: the progress state by the peer's capabilities, and bindMethods
LockInitialize(WorkDoneProgress, ImplicitProgressCreation) ==
  /\ ~bound
  /\ bound' = TRUE
  /\ BackgroundIndexProgressState' = IF WorkDoneProgress THEN "Empty" ELSE "Unsupported"
  /\ BackgroundIndexSkipCreate' = ImplicitProgressCreation
  /\ UNCHANGED <<owner, pcs, heldCB, inWrite, PendingBackgroundIndexProgress, progressSent, nlock,
                 ReplyCallbacks, NextCallID>>
  /\ LockLeaves

\* the table is being filled: nothing but refresh calls starts
Filling == 0 < NextCallID /\ NextCallID < SilentBinds

\* thread t starts an operation
LockStart(t, steps) ==
  /\ bound
  /\ pcs[t] = <<>>
  /\ ~Filling
  /\ nlock < MaxLockOps
  /\ nlock' = nlock + 1
  /\ pcs' = [pcs EXCEPT ![t] = steps]
  /\ UNCHANGED <<owner, heldCB, inWrite, BackgroundIndexProgressState,
                 BackgroundIndexSkipCreate, PendingBackgroundIndexProgress, progressSent, bound,
                 ReplyCallbacks, NextCallID>>
  /\ LockLeaves

\* onSemanticsMaybeChanged on a worker, one call after the other
LockFill ==
  /\ Filling
  /\ \A t \in Threads : pcs[t] = <<>>
  /\ pcs' = [pcs EXCEPT !["w1"] = callMethod(BgCB)]
  /\ UNCHANGED <<owner, heldCB, inWrite, BackgroundIndexProgressState,
                 BackgroundIndexSkipCreate, PendingBackgroundIndexProgress, progressSent, bound, nlock,
                 ReplyCallbacks, NextCallID>>
  /\ LockLeaves

MainOps ==
  {onCallSteps, onCancelSteps, onDocumentDidClose}
    \cup {onReplySteps(id, Result) : id \in {0, 1}, Result \in {"ok", "error"}}
WorkerOps == {onSemanticTokens, onDiagnosticsReady, callMethod(ApplyEditCB), callMethod(BgCB)}
IndexOps == {onBackgroundIndexProgress(Stats) : Stats \in {"more", "done"}}

Initialized == \E WorkDoneProgress, ImplicitProgressCreation \in BOOLEAN :
                 LockInitialize(WorkDoneProgress, ImplicitProgressCreation)
MainStart == \E steps \in MainOps : LockStart("main", steps)
WorkerStart == \E steps \in WorkerOps : NextCallID < MaxBinds /\ LockStart("w1", steps)
IndexStart == \E steps \in IndexOps : NextCallID < MaxBinds /\ LockStart("idx", steps)
Step == \E t \in Threads : LockStep(t)

LockNext ==
  \/ Initialized
  \/ MainStart
  \/ WorkerStart
  \/ IndexStart
  \/ LockFill
  \/ Step

LockSpec == Init /\ [][LockNext]_vars

(***************************************************************************)
(* IncrementSpec: increment as a function of its argument.  The first call *)
(* is made with any string of decimal digits of up to MaxDigits digits,    *)
(* the following ones with the string the call before left, as the token   *)
(* callbacks do with Last.resultId.                                        *)
(***************************************************************************)
\* digits of the strings increment is first called with
MaxDigits == 3

DigitStrings == UNION {[1..n -> 0..9] : n \in 0..MaxDigits}

IncLeaves == UNCHANGED <<mainVars, guardVars, docVars, lockVars, runResult, Opts>>

\* increment(S) for a string S
IncFirst(S) ==
  /\ incT = <<>>
  /\ incS' = S
  /\ incT' = increment(S)
  /\ IncLeaves

\* increment(S) for the string the call before left
IncAgain ==
  /\ incT # <<>>
  /\ Len(incT) <= MaxDigits
  /\ incS' = incT
  /\ incT' = increment(incT)
  /\ IncLeaves

First == \E S \in DigitStrings : IncFirst(S)

IncrementNext ==
  \/ First
  \/ IncAgain

IncrementSpec == Init /\ [][IncrementNext]_vars

(***************************************************************************)
(* InitSpec: the dispatcher with a peer that sends initialize calls with   *)
(* any parameters, among its other calls and notifications.                *)
(***************************************************************************)
Initialize == \E Params \in InitializeParams, ID \in CallIds :
                ncalls < MaxCalls /\ OnCall("initialize", Params, ID)

InitNext ==
  \/ Initialize
  \/ Call
  \/ Notify

InitSpec == Init /\ [][InitNext]_vars

(***************************************************************************)
(* RenameSpec: the dispatcher with a peer that sends apply-fix and         *)
(* apply-rename commands, renames that fail among them, and answers the    *)
(* outbound calls.                                                         *)
(***************************************************************************)
RenameInitialize == ncalls = 0 /\ OnCall("initialize", NoParams, JInt(5))
Command == \E Params \in CommandParams, ID \in CallIds :
             /\ 0 < ncalls /\ ncalls < MaxCalls
             /\ OnCall("workspace/executeCommand", Params, ID)

RenameNext ==
  \/ RenameInitialize
  \/ Command
  \/ Reply
  \/ Notify

RenameSpec == Init /\ [][RenameNext]_vars

(***************************************************************************)
(* The claims.                                                             *)
(***************************************************************************)
\* the inbound calls whose reply guard is destroyed, as far as the state shows
\* them: those the last step ended, and those whose context is not yet released
Handled == ended \cup {calls[n] : n \in {m \in DOMAIN calls : calls[m].pc = "finished"}}
Live == {calls[n] : n \in DOMAIN calls}

\* what a handler replies of its own: its result or one of its errors
HandlerReplies == {"result", "error", "editsNotApplied", "peerError", "noClientReply"}

\* C1 as stated: every inbound call receives exactly one reply frame, never
\* two, and never zero once its handling has ended.
C1_ExactlyOneReply ==
  /\ \A c \in Live : Len(c.sent) <= 1
  /\ \A c \in Handled : Len(c.sent) = 1

\* C1: an inbound call never receives two reply frames, and once its reply
\* guard is destroyed it has received exactly one, unless the guard was
\* destroyed unreplied after the teardown of the endpoint began: then none.
C1_ExactlyOneReplyUnlessTeardown ==
  /\ \A c \in Live : Len(c.sent) <= 1
  /\ \A c \in Handled :
       /\ Len(c.sent) = IF c.torn THEN 0 ELSE 1
       /\ c.torn => IsBeingDestroyed

\* a handler dropped its guard before teardown and the call got its one reply
C1_Witness ==
  \E c \in Handled : c.sent = <<"InternalError">> /\ ~IsBeingDestroyed

C3_CookieGuardsCleanup ==
  [][\A k \in DOMAIN RequestCancelers :
       /\ k \notin DOMAIN RequestCancelers' =>
            \E c \in ended' :
              /\ to_string(c.id) = k
              /\ \/ c.cookie = RequestCancelers[k].cookie
                 \/ last'.op = "onCall" /\ last'.call = c.n
       /\ (k \in DOMAIN RequestCancelers' /\ RequestCancelers'[k] # RequestCancelers[k]) =>
            /\ last'.op = "onCall"
            /\ to_string(last'.id) = k
            /\ RequestCancelers'[k].canceler = last'.call]_vars

\* the late cleanup of a call has run and the entry of the later call that
\* reused its id is still registered
C3_Witness ==
  /\ last.op = "release"
  /\ to_string(last.id) \in DOMAIN RequestCancelers
  /\ RequestCancelers[to_string(last.id)].canceler > last.call
  /\ RequestCancelers[to_string(last.id)].canceler \in DOMAIN calls

\* C4: a cancellation changes only calls with the id it names, and only the
\* one registered last: when an id was reused after the first call with it
\* completed, the completed call is not touched, only the live one is.
SameId(c, d) == to_string(c.id) = to_string(d.id)

C4_CancelHitsLatestOnly ==
  [][(last'.op = "onNotify" /\ last'.arg = "$/cancelRequest") =>
       /\ DOMAIN calls' = DOMAIN calls
       /\ \A n \in DOMAIN calls :
            calls'[n] # calls[n] =>
              /\ last'.id # NoID
              /\ to_string(calls[n].id) = to_string(last'.id)
              /\ \A m \in DOMAIN calls : SameId(calls[m], calls[n]) => m <= n
              /\ calls'[n] = [calls[n] EXCEPT !.cancelled = TRUE,
                                              !.hit = @ \/ InFlight(calls[n])]]_vars

\* the id of a completed call was reused, the cancellation reached the live
\* call and left the completed one alone
C4_Witness ==
  /\ last.op = "onNotify"
  /\ last.arg = "$/cancelRequest"
  /\ \E n, m \in DOMAIN calls :
       /\ n < m
       /\ SameId(calls[n], calls[m])
       /\ to_string(last.id) = to_string(calls[m].id)
       /\ calls[n].pc = "finished" /\ ~calls[n].cancelled
       /\ calls[m].pc = "handler" /\ calls[m].hit

\* C5: a cancellation without an id, for an id no call in the registry has,
\* or for a call that has replied already writes no frame, runs no handler
\* and leaves the registry and the outbound call table as they are; in the
\* first two cases it changes nothing at all.
NotInFlight(ID) ==
  \A n \in DOMAIN calls : to_string(calls[n].id) = to_string(ID) => ~InFlight(calls[n])

C5_CancelNoOp ==
  [][(last'.op = "onNotify" /\ last'.arg = "$/cancelRequest"
        /\ (last'.id = NoID \/ NotInFlight(last'.id))) =>
       /\ RequestCancelers' = RequestCancelers
       /\ ReplyCallbacks' = ReplyCallbacks
       /\ cbLog' = cbLog
       /\ lastCallFrame' = lastCallFrame
       /\ ended' = {}
       /\ DOMAIN calls' = DOMAIN calls
       /\ \A n \in DOMAIN calls :
            /\ calls'[n].sent = calls[n].sent
            /\ calls'[n].pc = calls[n].pc
            /\ calls'[n].Replied = calls[n].Replied
       /\ (last'.id = NoID \/ to_string(last'.id) \notin DOMAIN RequestCancelers) =>
            calls' = calls
       /\ UNCHANGED <<Server, MethodHandlers, NotificationHandlers, phase, NextCallID>>]_vars

\* a cancellation arrived for a call that had replied and was still registered
C5_Witness ==
  /\ last.op = "onNotify"
  /\ last.arg = "$/cancelRequest"
  /\ \E n \in DOMAIN calls :
       /\ to_string(calls[n].id) = to_string(last.id)
       /\ calls[n].pc = "finished"
       /\ Len(calls[n].sent) = 1
       /\ calls[n].cancelled
       /\ ~calls[n].hit
  /\ to_string(last.id) \in DOMAIN RequestCancelers

\* C6: while initialize has not run, a call of another method is answered
\* ServerNotInitialized and runs no handler; the first initialize call is
\* accepted and every later one is answered InvalidRequest.
Sent(payload) == \E c \in ended' : c.n = last'.call /\ c.sent = <<payload>>

C6_InitializeFirst ==
  [][last'.op = "onCall" =>
       /\ (~Server /\ last'.arg # "initialize") =>
            /\ Sent("ServerNotInitialized")
            /\ UNCHANGED <<Server, MethodHandlers, NotificationHandlers,
                           ShutdownRequestReceived, calls, ReplyCallbacks, NextCallID,
                           cbLog, lastCallFrame>>
       /\ (~Server /\ last'.arg = "initialize") => Sent("result") /\ Server'
       /\ (Server /\ last'.arg = "initialize") =>
            /\ Sent("InvalidRequest")
            /\ UNCHANGED <<Server, MethodHandlers, NotificationHandlers>>
       /\ (Server' /\ ~Server) => last'.arg = "initialize"]_vars

\* a second initialize call was answered InvalidRequest
C6_Witness ==
  /\ last.op = "onCall"
  /\ last.arg = "initialize"
  /\ Server
  /\ \E c \in ended : c.n = last.call /\ c.n > 1 /\ c.sent = <<"InvalidRequest">>

\* C7: the table never holds more than MaxReplayCallbacks entries; a
\* bindReply on a full table removes exactly the oldest entry, leaves exactly
\* MaxReplayCallbacks, and the callback removed is invoked once, with the "no
\* reply" error; a bindReply on a table that is not full removes nothing.
Newest(rcb) == rcb[Len(rcb)]

C7_EvictOldest ==
  [][/\ Len(ReplyCallbacks') <= MaxReplayCallbacks
     /\ NextCallID' # NextCallID =>
          /\ NextCallID' = NextCallID + 1
          /\ ReplyCallbacks' # <<>>
          /\ Newest(ReplyCallbacks').id = NextCallID
          /\ IF Len(ReplyCallbacks) = MaxReplayCallbacks
               THEN /\ ReplyCallbacks' = Append(Tail(ReplyCallbacks), Newest(ReplyCallbacks'))
                    /\ Len(ReplyCallbacks') = MaxReplayCallbacks
                    /\ LET e == Head(ReplyCallbacks)
                       IN \/ /\ last'.op = "bindReply"
                             /\ \E w \in Workers :
                                  workers[w].oldest = NoEntry /\ workers'[w].oldest = e
                             /\ cbLog' = cbLog
                          \/ /\ last'.op = "onCall"
                             /\ cbLog' = Put(cbLog, e.id, <<"evicted">>)
                             /\ e.id \notin DOMAIN cbLog
               ELSE /\ ReplyCallbacks' = Append(ReplyCallbacks, Newest(ReplyCallbacks'))
                    /\ cbLog' = cbLog
                    /\ \A w \in Workers : workers'[w].oldest = NoEntry
                                            \/ workers'[w] = workers[w]
     /\ \A w \in Workers :
          (workers[w].oldest # NoEntry /\ workers'[w] # workers[w]) =>
            /\ workers'[w].oldest = NoEntry
            /\ workers[w].oldest.id \notin DOMAIN cbLog
            /\ cbLog' = Put(cbLog, workers[w].oldest.id, <<"evicted">>)]_vars

\* the 101st outbound call was issued with no reply received: the first
\* call's callback got the error and the table holds MaxReplayCallbacks entries
C7_Witness ==
  /\ last.op = "callMethod"
  /\ last.arg = "evicted"
  /\ Invocations(cbLog, 0) = <<"evicted">>
  /\ Len(ReplyCallbacks) = MaxReplayCallbacks
  /\ ReplyCallbacks[1].id = 1

\* the outbound calls issued so far, and where the callback of each is
Issued == 0 .. NextCallID - 1
Pending(id) == \E k \in 1..Len(ReplyCallbacks) : ReplyCallbacks[k].id = id
HeldOldest(id) == \E w \in Workers : workers[w].oldest # NoEntry /\ workers[w].oldest.id = id
CallbackArgs == ReplyResults \cup {"evicted"}

\* C8 as stated: the callback of every outbound call that is neither pending
\* nor about to be run by the thread that evicted it has been invoked exactly
\* once, and no callback is invoked twice.
C8_InvokedExactlyOnce ==
  \A id \in Issued :
    /\ Len(Invocations(cbLog, id)) <= 1
    /\ (~Pending(id) /\ ~HeldOldest(id)) => Len(Invocations(cbLog, id)) = 1

\* C8: no callback is invoked twice; a callback that is pending in the table
\* or held by the thread that evicted it has not been invoked; every other
\* callback has been invoked exactly once, with the peer's answer or the
\* eviction error, unless the endpoint was destroyed while it was pending,
\* when it is destroyed without being invoked.
C8_InvokedOnceUnlessDestroyed ==
  LET pend == {ReplyCallbacks[k].id : k \in 1..Len(ReplyCallbacks)}
      held == {workers[w].oldest.id : w \in {v \in Workers : workers[v].oldest # NoEntry}}
  IN /\ DOMAIN cbLog \subseteq Issued
     /\ pend \cup held \subseteq Issued
     /\ pend \cap held = {}
     /\ \A k \in 1..(Len(ReplyCallbacks) - 1) : ReplyCallbacks[k].id < ReplyCallbacks[k + 1].id
     /\ \A id \in DOMAIN cbLog :
          /\ Len(cbLog[id]) = 1
          /\ cbLog[id][1] \in CallbackArgs
          /\ id \notin pend \cup held
     /\ phase # "destroyed" => Issued \ (pend \cup held) \subseteq DOMAIN cbLog

\* the race: the peer's reply for a call arrived after a bindReply had evicted
\* it and before the evicting thread ran its callback
C8_Witness ==
  /\ last.op = "onReply"
  /\ last.id.t = "int"
  /\ HeldOldest(last.id.n)
  /\ Invocations(cbLog, last.id.n) = <<>>

\* C9: a reply with a numeric id that is pending removes that entry and runs
\* its callback with the peer's answer; a reply with any other id runs no
\* callback and leaves the table, and every inbound call, as they are.
IsWithout(after, rcb, id) ==
  /\ Len(after) = Len(rcb) - 1
  /\ \E k \in 1..Len(rcb) :
       /\ rcb[k].id = id
       /\ \A i \in 1..Len(after) : after[i] = IF i < k THEN rcb[i] ELSE rcb[i + 1]

C9_ReplyResolvesPending ==
  [][last'.op = "onReply" =>
       IF last'.id.t = "int" /\ Pending(last'.id.n)
         THEN /\ IsWithout(ReplyCallbacks', ReplyCallbacks, last'.id.n)
              /\ ~\E k \in 1..Len(ReplyCallbacks') : ReplyCallbacks'[k].id = last'.id.n
              /\ last'.arg \in ReplyResults
              /\ cbLog' = Put(cbLog, last'.id.n,
                              Invocations(cbLog, last'.id.n) \o <<last'.arg>>)
         ELSE /\ ReplyCallbacks' = ReplyCallbacks
              /\ cbLog' = cbLog
              /\ calls' = calls
              /\ ended' = {}
              /\ workers' = workers]_vars

\* a reply resolved a pending call: its entry is gone and its callback has
\* the peer's answer
C9_Witness ==
  /\ last.op = "onReply"
  /\ last.id.t = "int"
  /\ last.arg \in ReplyResults
  /\ ~Pending(last.id.n)
  /\ Invocations(cbLog, last.id.n) = <<last.arg>>
  /\ Len(ReplyCallbacks) = MaxReplayCallbacks - 1

\* C10: a reply for a call that was evicted (its callback has run with the
\* eviction error, or the evicting thread is about to run it) is discarded:
\* no callback runs, of that call or of another, and the table is unchanged.
Evicted(id) == Invocations(cbLog, id) = <<"evicted">> \/ HeldOldest(id)

C10_LateReplyDiscarded ==
  [][(last'.op = "onReply" /\ last'.id.t = "int" /\ Evicted(last'.id.n)) =>
       /\ cbLog' = cbLog
       /\ ReplyCallbacks' = ReplyCallbacks
       /\ calls' = calls
       /\ ended' = {}
       /\ workers' = workers]_vars

\* the reply for the first call arrived after its callback had run with the
\* eviction error, with MaxReplayCallbacks other calls pending
C10_Witness ==
  /\ last.op = "onReply"
  /\ last.id = JInt(0)
  /\ last.arg = "unknown"
  /\ Invocations(cbLog, 0) = <<"evicted">>
  /\ Len(ReplyCallbacks) = MaxReplayCallbacks

\* C11: the ids bindReply returns increase: each bind returns the counter's
\* value, which is larger than every id returned before (pending, held by a
\* caller, or resolved), and the pending queue is in strictly increasing
\* order of id, so no id is in it twice.
Increasing(rcb) == \A k \in 1..(Len(rcb) - 1) : rcb[k].id < rcb[k + 1].id

C11_MonotonicIds ==
  [][/\ Increasing(ReplyCallbacks')
     /\ NextCallID' # NextCallID =>
          /\ NextCallID' = NextCallID + 1
          /\ \A k \in 1..Len(ReplyCallbacks) : ReplyCallbacks[k].id < NextCallID
          /\ \A w \in Workers : workers[w].id < NextCallID
          /\ DOMAIN cbLog \subseteq 0..(NextCallID - 1)
          /\ lastCallFrame < NextCallID
          /\ ReplyCallbacks' # <<>>
          /\ Newest(ReplyCallbacks').id = NextCallID
          /\ last'.op = "bindReply" =>
               /\ last'.id = JInt(NextCallID)
               /\ \E w \in Workers : workers[w].pc = "idle" /\ workers'[w].id = NextCallID
          /\ last'.op = "onCall" =>
               /\ lastCallFrame' = NextCallID
               /\ \A n \in DOMAIN calls' \ DOMAIN calls : calls'[n].out = NextCallID]_vars

\* two threads are between bindReply and the frame, with different ids, the
\* one that bound later with the larger
C11_Witness ==
  /\ last.op = "bindReply"
  /\ \A w \in Workers : workers[w].pc = "bound"
  /\ \E w, v \in Workers :
       /\ workers[w].id < workers[v].id
       /\ last.id = JInt(workers[v].id)
  /\ Len(ReplyCallbacks) >= 2

\* C12: however often and from however many threads a guard is invoked, at
\* most one reply frame is written, it carries the payload of the first
\* invocation, and once no thread is inside the guard an invoked guard has
\* written exactly one.
C12_FirstInvocationWins ==
  /\ Len(frames) <= 1
  /\ frames # <<>> => invoked # <<>> /\ frames[1].payload = invoked[1]
  /\ (invoked # <<>> /\ \A w \in Workers : sending[w] = NoSend) => Len(frames) = 1

\* the guard was invoked twice with different payloads and one frame, with
\* the first payload, is written
C12_Witness ==
  /\ Len(invoked) >= 2
  /\ invoked[1] \in Payloads
  /\ invoked[2] \in Payloads
  /\ invoked[1] # invoked[2]
  /\ \A w \in Workers : sending[w] = NoSend
  /\ frames = <<[id |-> guards[Len(guards)].of, payload |-> invoked[1]]>>

\* the guards destroyed in this step
Destroyed == {g \in 1..Len(guards) : guards[g].alive /\ ~guards'[g].alive}

\* C13: when the guard that owns a call (not moved from) is destroyed
\* unreplied before the teardown of the endpoint began, one InternalError
\* frame with the id of the call is written.
C13_DroppedGuardRecovers ==
  [][\A g \in Destroyed :
       (guards[g].Server /\ ~guards[g].Replied /\ ~IsBeingDestroyed) =>
         frames' = Append(frames, [id |-> guards[g].of, payload |-> "InternalError"])]_vars

\* a guard that was moved into a handler and dropped there unreplied, before
\* teardown: the call has its InternalError reply
C13_Witness ==
  /\ ~IsBeingDestroyed
  /\ Len(guards) >= 2
  /\ \A g \in 1..Len(guards) : ~guards[g].alive
  /\ invoked = <<"InternalError">>
  /\ frames = <<[id |-> guards[Len(guards)].of, payload |-> "InternalError"]>>

\* C14: the destruction of a guard after the teardown of the endpoint began,
\* and the destruction at any time of a guard whose ID was moved out of it (a
\* moved-from guard, or one that has written its reply), writes no frame.
C14_TeardownIsSilent ==
  [][\A g \in Destroyed :
       (IsBeingDestroyed \/ guards[g].ID = NoID) =>
         frames' = frames /\ invoked' = invoked]_vars

\* the endpoint is being destroyed; the moved-from guard and the unreplied
\* guard that owned the call are both destroyed and no frame was written
C14_Witness ==
  /\ IsBeingDestroyed
  /\ \E g, h \in 1..Len(guards) :
       /\ ~guards[g].alive /\ ~guards[g].Server
       /\ ~guards[h].alive /\ guards[h].Server /\ ~guards[h].Replied
  /\ frames = <<>>

\* the step is the successful completion of a token computation
TokensComputed == docLast'.op = "tokens" /\ docLast'.ok /\ tokenReqs' # tokenReqs

(* C15: the first successful token computation for a document without      *)
(* stored token state returns version "1"; a delta request that cites the  *)
(* latest stored version returns an edit list and no full list; a delta    *)
(* request that cites another version than the stored one returns the full *)
(* token list and no edit list.                                            *)
C15_TokenVersioning ==
  [][TokensComputed =>
       LET File == docLast'.file
           r == docLast'.result
           Toks == LastSemanticTokens'[File].tokens
       IN /\ File \notin DOMAIN LastSemanticTokens => r.resultId = <<1>>
          /\ File \in DOMAIN LastSemanticTokens /\ docLast'.delta =>
               IF docLast'.prev = LastSemanticTokens[File].resultId
                 THEN /\ r.tokens = <<>>
                      /\ r.edits = <<diffTokens(LastSemanticTokens[File].tokens, Toks)>>
                 ELSE /\ r.tokens = <<Toks>>
                      /\ r.edits = <<>>]_vars

\* a delta request citing the latest version "2" was answered with edits
C15_Witness ==
  /\ docLast.op = "tokens" /\ docLast.ok /\ docLast.delta
  /\ docLast.prev = <<2>>
  /\ docLast.result.edits # <<>>
  /\ docLast.result.resultId = <<3>>

\* the step is a publication of diagnostics
DiagnosticsPublished == docLast'.op = "diagnostics"

\* the diagnostics of the previous publication, as the peer was shown them
ShownBefore == {toLSPDiag(D) : D \in {D \in Diags : toDiagKey(toLSPDiag(D)) \in docLast'.replaced}}

C17_ClosedStaysAbsent ==
  \A File \in Files \ drafts :
    /\ File \notin DOMAIN LastSemanticTokens
    /\ File \notin DOMAIN DiagRefMap

(* C18: every write of the transport (reply, call, notification) is done   *)
(* by a thread that holds TranspWriter, so no two threads are inside a     *)
(* write of the transport at the same time.                                *)
C18_WritesSerialized ==
  /\ \A t \in inWrite : owner["TranspWriter"] = t
  /\ Cardinality(inWrite) <= 1

\* the mutex thread t waits for, if it waits
Awaits(t) ==
  IF pcs[t] # <<>> /\ Head(pcs[t]).op = "acquire" /\ owner[Head(pcs[t]).arg] # "free"
    THEN {Head(pcs[t]).arg}
    ELSE {}

\* one thread is inside a write and two others wait for the write lock: a
\* worker with a reply and a thread with an outbound call or a notification
C18_Witness ==
  /\ inWrite # {}
  /\ \E t, u \in Threads :
       /\ t # u
       /\ Awaits(t) = {"TranspWriter"}
       /\ Awaits(u) = {"TranspWriter"}

\* the thread that holds the mutex t waits for, or "none"
Blocker(t) ==
  IF t \in Threads /\ Awaits(t) # {} THEN owner[Head(pcs[t]).arg] ELSE "none"

(* C19: no threads wait for each other's mutexes in a cycle (a thread that *)
(* waits for a mutex it holds itself is a cycle of one), and a thread that *)
(* runs a callback taken out of the table, evicted by bindReply or found   *)
(* by onReply, does not hold the table's mutex.                            *)
C19_NoDeadlock ==
  \A t \in Threads :
    /\ Blocker(t) # t
    /\ Blocker(Blocker(t)) # t
    /\ Blocker(Blocker(Blocker(t))) # t
    /\ pcs[t] # <<>> /\ Head(pcs[t]).op = "runHeld" => owner["CallMutex"] # t

\* a thread is about to run the apply-fix callback that its bindReply
\* evicted, while another thread is inside bindReply's locked region
C19_Witness ==
  \E t, u \in Threads :
    /\ pcs[t] # <<>> /\ Head(pcs[t]).op = "runHeld" /\ Head(pcs[t]).arg = "evicted"
    /\ heldCB[t].cb = ApplyEditCB
    /\ owner["CallMutex"] = u
    /\ pcs[u] # <<>> /\ Head(pcs[u]).op = "bind"

\* the step dispatched an inbound message
Dispatched == last'.op \in {"onNotify", "onCall", "onReply"}

(* C20: the dispatcher returns "stop the loop" exactly for the exit        *)
(* notification, initialized or not, and exit runs no handler; any other   *)
(* notification, any call and any reply returns "continue"; a notification *)
(* writes no reply frame.                                                  *)
C20_StopOnlyOnExit ==
  [][Dispatched =>
       /\ phase' = "stopped" <=> (last'.op = "onNotify" /\ last'.arg = "exit")
       /\ phase' # "stopped" => phase' = "running"
       /\ last'.op = "onNotify" =>
            /\ ended' = {}
            /\ DOMAIN calls' = DOMAIN calls
            /\ \A n \in DOMAIN calls : calls'[n].sent = calls[n].sent
       /\ last'.op = "onNotify" /\ last'.arg = "exit" =>
            UNCHANGED <<Server, MethodHandlers, NotificationHandlers, calls,
                        RequestCancelers, ReplyCallbacks>>]_vars

\* exit arrived before initialize and stopped the loop
C20_Witness ==
  /\ last.op = "onNotify" /\ last.arg = "exit"
  /\ ~Server
  /\ phase = "stopped"

(* C21: once initialize has run, a call whose method has no handler is     *)
(* answered with the error MethodNotFound, and no handler runs for it: the *)
(* call ends in the dispatch step with that one reply, and the handlers'   *)
(* state is as before.                                                     *)
C21_MethodNotFound ==
  [][last'.op = "onCall" /\ Server /\ last'.arg \notin MethodHandlers =>
       /\ \E c \in ended' : /\ ended' = {c}
                            /\ c.n = last'.call
                            /\ c.sent = <<"MethodNotFound">>
       /\ UNCHANGED <<Server, MethodHandlers, NotificationHandlers,
                      ShutdownRequestReceived, calls, ReplyCallbacks, NextCallID,
                      cbLog, lastCallFrame>>]_vars

\* an unknown method was called after initialize and answered MethodNotFound
C21_Witness ==
  /\ last.op = "onCall" /\ last.arg = "foo/unknown"
  /\ Server
  /\ \E c \in ended : c.method = "foo/unknown" /\ c.sent = <<"MethodNotFound">>

RECURSIVE Value(_)
\* the number a string of decimal digits denotes; the empty string denotes 0
Value(S) == IF S = <<>> THEN 0 ELSE 10 * Value(SubSeq(S, 1, Len(S) - 1)) + S[Len(S)]

RECURSIVE Decimal(_)
\* the decimal representation of a natural number
Decimal(n) == IF n < 10 THEN <<n>> ELSE Decimal(n \div 10) \o <<n % 10>>

LoopEnds == phase = "running" /\ phase' = "stopped"

(* C23: run() reports success only if the loop returned without a          *)
(* transport error and a shutdown call was handled before; a transport     *)
(* error, or the end of the loop (exit, or the stream closing) without a   *)
(* shutdown call before, makes it report failure.  It reports when the     *)
(* loop ends and not before.                                               *)
C23_RunResult ==
  [][/\ LoopEnds =>
          /\ runResult' \in {"success", "failure"}
          /\ runResult' = "success" <=>
               ShutdownRequestReceived /\ ~(last'.op = "streamClose" /\ last'.arg = "error")
     /\ ~LoopEnds => runResult' = runResult
     /\ phase' = "running" => runResult' = "running"]_vars

\* shutdown was handled and answered, then exit ended the loop: success
C23_Witness ==
  /\ runResult = "success"
  /\ last.op = "onNotify" /\ last.arg = "exit"
  /\ ShutdownRequestReceived

\* the step dispatched a notification that has no handler and is not exit
Unbound ==
  /\ last'.op = "onNotify"
  /\ last'.arg # "exit"
  /\ last'.arg \notin NotificationHandlers

(* C24 as stated: a notification without a handler whose method is the     *)
(* cancellation message goes to the registry's cancel path, initialized or *)
(* not; only other methods are dropped as "before initialization".         *)
C24_CancelAlwaysRouted ==
  [][Unbound =>
       /\ last'.arg = "$/cancelRequest" => last'.route = "onCancel"
       /\ last'.route = "beforeInit" => last'.arg # "$/cancelRequest" /\ ~Server]_vars

(* C24: a notification without a handler is dropped as "before             *)
(* initialization" whenever initialize has not run, the cancellation       *)
(* message included; once initialize has run, the cancellation message goes *)
(* to the registry's cancel path, which invokes the canceler registered    *)
(* for the id, and any other method is dropped as unhandled.               *)
C24_NotificationRouting ==
  [][Unbound =>
       /\ last'.route = "beforeInit" <=> ~Server
       /\ last'.route = "onCancel" <=> Server /\ last'.arg = "$/cancelRequest"
       /\ last'.route = "unhandled" <=> Server /\ last'.arg # "$/cancelRequest"
       /\ last'.route = "onCancel" =>
            \A n \in DOMAIN calls :
              calls'[n].cancelled =
                (calls[n].cancelled \/ n \in Cancelled(RequestCancelers, last'.id))
       /\ last'.route # "onCancel" => calls' = calls]_vars

\* a cancellation routed to the registry after initialize hit a call in flight
C24_Witness ==
  /\ last.op = "onNotify" /\ last.arg = "$/cancelRequest"
  /\ last.route = "onCancel"
  /\ \E n \in DOMAIN calls : calls[n].cancelled /\ calls[n].id = last.id

\* the registry entry of the id of call n is the one call n registered
Owns(rc, c) ==
  /\ to_string(c.id) \in DOMAIN rc
  /\ rc[to_string(c.id)].cookie = c.cookie

(* C25: when an id is reused by a new call while an earlier call with it   *)
(* is in flight, the registration of the new call takes the entry; a call  *)
(* whose entry was taken never gets it back, also not when the newer call  *)
(* has ended and erased the entry, and no cancellation reaches it: a       *)
(* cancellation sets the flag only of the call that holds the entry.       *)
C25_LastRegistrationWins ==
  [][\A n \in DOMAIN calls :
       /\ (last'.op = "onCall" /\ to_string(last'.id) = to_string(calls[n].id)) =>
            /\ n \in DOMAIN calls'
            /\ ~Owns(RequestCancelers', calls'[n])
       /\ (~Owns(RequestCancelers, calls[n]) /\ n \in DOMAIN calls') =>
            /\ ~Owns(RequestCancelers', calls'[n])
            /\ calls'[n].cancelled = calls[n].cancelled
            /\ calls'[n].hit = calls[n].hit
       /\ (n \in DOMAIN calls' /\ calls'[n].cancelled # calls[n].cancelled) =>
            /\ Owns(RequestCancelers, calls[n])
            /\ \A m \in DOMAIN calls : SameId(calls[m], calls[n]) => m <= n]_vars

\* a cancellation named the id of a call in flight after a newer call with
\* the same id had ended and erased the entry: the call is not cancelled
C25_Witness ==
  /\ last.op = "onNotify"
  /\ last.arg = "$/cancelRequest"
  /\ to_string(last.id) \notin DOMAIN RequestCancelers
  /\ \E n \in DOMAIN calls :
       /\ to_string(calls[n].id) = to_string(last.id)
       /\ calls[n].pc = "handler"
       /\ calls[n].cookie + 1 < NextRequestCookie
       /\ ~calls[n].cancelled

\* the step is a cancellation for a call in flight that holds its entry
CancelsInFlight ==
  /\ last'.op = "onNotify"
  /\ last'.route = "onCancel"
  /\ \E n \in DOMAIN calls : InFlight(calls[n]) /\ n \in Cancelled(RequestCancelers, last'.id)

(* C26: a cancellation for a call in flight sets the cancellation flag of  *)
(* that call and does nothing else: no frame is written, the registry and  *)
(* the outbound table stay as they are, no call ends and the handler stays *)
(* where it is; a frame for an inbound call is never written by a          *)
(* notification, only by the steps of its handler path.                    *)
C26_CancelIsCooperative ==
  [][/\ CancelsInFlight =>
          /\ RequestCancelers' = RequestCancelers
          /\ ended' = {}
          /\ DOMAIN calls' = DOMAIN calls
          /\ \A n \in DOMAIN calls :
               calls'[n] = IF n \in Cancelled(RequestCancelers, last'.id)
                             THEN [calls[n] EXCEPT !.cancelled = TRUE, !.hit = TRUE]
                             ELSE calls[n]
          /\ UNCHANGED <<Server, MethodHandlers, NotificationHandlers,
                         ShutdownRequestReceived, IsBeingDestroyed, phase, ncalls,
                         NextRequestCookie, ReplyCallbacks, NextCallID, workers, cbLog,
                         lastCallFrame>>
     /\ \A n \in DOMAIN calls \cap DOMAIN calls' :
          calls'[n].sent # calls[n].sent =>
            last'.op \in {"finish", "onReply", "onCall", "callMethod"}]_vars

\* a call in flight was cancelled: it is still in its handler, unanswered and
\* registered
C26_Witness ==
  /\ last.op = "onNotify"
  /\ last.route = "onCancel"
  /\ \E n \in DOMAIN calls :
       /\ calls[n].hit
       /\ calls[n].pc = "handler"
       /\ ~calls[n].Replied
       /\ calls[n].sent = <<>>
       /\ Owns(RequestCancelers, calls[n])
       /\ to_string(calls[n].id) = to_string(last.id)

(* C27: every inbound call registers with the value of the cookie counter  *)
(* and the counter goes up by one in that step and in no other, so the     *)
(* cookies of any two calls differ and grow with the order of arrival,     *)
(* also for two calls with one id that are in flight together, and the     *)
(* registry holds cookies handed out before.                               *)
C27_CookiesDistinct ==
  [][/\ IF last'.op = "onCall"
          THEN /\ NextRequestCookie' = NextRequestCookie + 1
               /\ \A c \in ended' : c.n = last'.call => c.cookie = NextRequestCookie
               /\ last'.call \in DOMAIN calls' =>
                    calls'[last'.call].cookie = NextRequestCookie
               /\ to_string(last'.id) \in DOMAIN RequestCancelers' =>
                    RequestCancelers'[to_string(last'.id)].cookie = NextRequestCookie
          ELSE NextRequestCookie' = NextRequestCookie
     /\ \A n, m \in DOMAIN calls' : n < m => calls'[n].cookie < calls'[m].cookie
     /\ \A n \in DOMAIN calls' : calls'[n].cookie < NextRequestCookie'
     /\ \A k \in DOMAIN RequestCancelers' :
          RequestCancelers'[k].cookie < NextRequestCookie']_vars

\* two calls with one id are in flight together, the later with the greater
\* cookie, and the later holds the entry
C27_Witness ==
  \E n, m \in DOMAIN calls :
    /\ n < m
    /\ SameId(calls[n], calls[m])
    /\ InFlight(calls[n]) /\ InFlight(calls[m])
    /\ calls[n].cookie < calls[m].cookie
    /\ Owns(RequestCancelers, calls[m])

\* the token list a result carries or leads to
Carried(r) == IF r.tokens # <<>> THEN r.tokens[1] ELSE r.edits[1].to

DeltaComputed == TokensComputed /\ docLast'.delta

(* C29 as stated: a delta request for a document without stored token      *)
(* state returns the full token list and no edit list, whatever version    *)
(* the peer cites, the empty version included.                             *)
C29_NoStateFullList ==
  [][(DeltaComputed /\ docLast'.file \notin DOMAIN LastSemanticTokens) =>
       /\ docLast'.result.edits = <<>>
       /\ docLast'.result.tokens = <<LastSemanticTokens'[docLast'.file].tokens>>]_vars

(* C29: a delta request for a document with stored token state returns an  *)
(* edit list only if the peer cites the stored version, which is never     *)
(* empty, and the edits are against the stored tokens; for a document      *)
(* without stored state it returns the full list for every version the     *)
(* peer cites except the empty one, for which it returns an edit list      *)
(* against the empty token sequence.                                       *)
C29_EditsOnlyOnMatch ==
  [][/\ DeltaComputed =>
          LET File == docLast'.file
              r == docLast'.result
              Toks == LastSemanticTokens'[File].tokens
          IN IF File \in DOMAIN LastSemanticTokens
               THEN r.edits # <<>> =>
                      /\ docLast'.prev = LastSemanticTokens[File].resultId
                      /\ r.edits = <<diffTokens(LastSemanticTokens[File].tokens, Toks)>>
                      /\ LastSemanticTokens[File].tokens \in TokenLists
               ELSE IF docLast'.prev = <<>>
                      THEN r.tokens = <<>> /\ r.edits = <<diffTokens(<<>>, Toks)>>
                      ELSE r.tokens = <<Toks>> /\ r.edits = <<>>
     /\ \A File \in DOMAIN LastSemanticTokens' :
          LastSemanticTokens'[File].resultId # <<>>]_vars

\* a delta request citing version "1" for a document without stored state
\* was answered with the full list and version "1"
C29_Witness ==
  /\ docLast.op = "tokens" /\ docLast.ok /\ docLast.delta
  /\ docLast.prev = <<1>>
  /\ docLast.result.resultId = <<1>>
  /\ docLast.result.tokens # <<>>
  /\ docLast.result.edits = <<>>

\* the step is the completion of a token computation with an error
TokensFailed == docLast'.op = "tokens" /\ ~docLast'.ok /\ tokenReqs' # tokenReqs

(* C30: a token computation that ends with an error answers its request    *)
(* with the error, carrying no tokens, no edits and no version, and leaves *)
(* the stored token state of every document as it is: the state of the     *)
(* document keeps its tokens and version, and a document without state     *)
(* gets none.                                                              *)
C30_FailureLeavesState ==
  [][TokensFailed =>
       /\ \E r \in tokenReqs :
            /\ tokenReqs' = tokenReqs \ {r}
            /\ r.file = docLast'.file
            /\ r.delta = docLast'.delta
            /\ r.prev = docLast'.prev
       /\ docLast'.result = DocOp("tokens", docLast'.file).result
       /\ LastSemanticTokens' = LastSemanticTokens
       /\ docLast'.file \notin DOMAIN LastSemanticTokens =>
            docLast'.file \notin DOMAIN LastSemanticTokens'
       /\ UNCHANGED <<drafts, DiagRefMap>>]_vars

\* a computation failed for an open document that had no token state: the
\* document still has none
C30_Witness ==
  /\ docLast.op = "tokens" /\ ~docLast.ok
  /\ docLast.file \in drafts
  /\ docLast.file \notin DOMAIN LastSemanticTokens
  /\ ntok >= 1

(* C31: in every state, token state and a diagnostic table exist only for  *)
(* documents that are open: a document that was never opened, was closed   *)
(* or was dropped by a change that failed to apply has neither.            *)
C31_StateOnlyForOpen ==
  \A File \in DOMAIN LastSemanticTokens \cup DOMAIN DiagRefMap : File \in drafts

(* C32: in every state each entry of the cancellation registry was         *)
(* registered by an inbound call whose extent has not ended, under the id  *)
(* of that call; so when no inbound call is left the registry is empty.    *)
C32_EntriesBelongToLiveCalls ==
  /\ \A k \in DOMAIN RequestCancelers :
       \E n \in DOMAIN calls :
         /\ RequestCancelers[k].canceler = n
         /\ RequestCancelers[k].cookie = calls[n].cookie
         /\ to_string(calls[n].id) = k
  /\ calls = EmptyMap => RequestCancelers = EmptyMap

\* three calls over two ids have come and all have ended: nothing is left
C32_Witness ==
  /\ last.op = "release"
  /\ ncalls = 3
  /\ calls = EmptyMap
  /\ RequestCancelers = EmptyMap
  /\ NextRequestCookie > 2

\* the step is an initialize call that was rejected
InitializeRejected ==
  /\ last'.op = "onCall"
  /\ last'.arg = "initialize"
  /\ Sent("InvalidRequest")

(* C33: an initialize call that is rejected with InvalidRequest leaves the *)
(* endpoint as it was: the options derived from the first initialize       *)
(* (offset encoding, workspace root), the offset encoding handlers run     *)
(* with, the handler registry and the backend are unchanged.               *)
C33_RejectedInitializeChangesNothing ==
  [][InitializeRejected =>
       /\ Opts' = Opts
       /\ handlerContext' = handlerContext
       /\ UNCHANGED <<Server, MethodHandlers, NotificationHandlers>>]_vars

\* the step wrote the frame of an outbound call
FrameWritten == lastCallFrame' # lastCallFrame

(* C34: the callback of an outbound call is in the table before the frame  *)
(* of the call is written: the frame carries an id that bindReply returned *)
(* to the writing thread before, and when it is written the callback is    *)
(* pending or has run already; so a reply for an issued id never meets a   *)
(* callback that is still to be registered: it finds the callback, or the  *)
(* callback has run or is held by the thread that evicted it.              *)
C34_RegisteredBeforeFrame ==
  [][/\ FrameWritten =>
          /\ lastCallFrame' \in 0..(NextCallID' - 1)
          /\ \/ last'.op = "onCall" /\ lastCallFrame' = NextCallID
             \/ \E w \in Workers : /\ workers[w].pc = "bound"
                                   /\ workers[w].id = lastCallFrame'
                                   /\ workers[w].id < NextCallID
          /\ \/ \E k \in 1..Len(ReplyCallbacks') : ReplyCallbacks'[k].id = lastCallFrame'
             \/ Invocations(cbLog', lastCallFrame') # <<>>
             \/ \E w \in Workers : /\ workers'[w].oldest # NoEntry
                                   /\ workers'[w].oldest.id = lastCallFrame'
     /\ (last'.op = "onReply" /\ last'.id.t = "int" /\ last'.id.n \in Issued) =>
          \/ Pending(last'.id.n)
          \/ Invocations(cbLog, last'.id.n) # <<>>
          \/ HeldOldest(last'.id.n)]_vars

\* the peer answered the call whose frame was written last and the callback,
\* registered before the frame, got the answer
C34_Witness ==
  /\ last.op = "onReply"
  /\ last.id = JInt(lastCallFrame)
  /\ last.arg \in ReplyResults
  /\ Invocations(cbLog, lastCallFrame) = <<last.arg>>
  /\ ~Pending(lastCallFrame)

BoundOthers(w) == {v \in Workers \ {w} : workers[v].pc = "bound"}

AwaitingEdit == {n \in DOMAIN calls : calls[n].pc = "outbound"}

(* C36: an inbound command call that applies an edit has no reply while    *)
(* its outbound workspace/applyEdit call is unresolved; it is answered in  *)
(* the step that resolves the outbound call, by that call's callback: with *)
(* the success message if the peer reports the edit applied, with an error *)
(* if the peer reports it not applied or answers with an error or the      *)
(* outbound call is evicted.  Only the teardown ends it without a reply.   *)
C36_ReplyAfterApplyEdit ==
  [][\A n \in AwaitingEdit :
       /\ calls[n].sent = <<>> /\ ~calls[n].Replied
       /\ Invocations(cbLog, calls[n].out) = <<>>
       /\ IF n \in DOMAIN calls'
            THEN calls'[n].sent = <<>> /\ calls'[n].pc = "outbound"
            ELSE \E c \in ended' :
                   /\ c.n = n
                   /\ IF last'.op = "destroyEnd"
                        THEN c.sent = <<>> /\ Invocations(cbLog', c.out) = <<>>
                        ELSE \E arg \in CallbackArgs :
                               /\ Invocations(cbLog', c.out) = <<arg>>
                               /\ arg = "applied" => c.sent = <<"result">>
                               /\ arg = "notApplied" => c.sent = <<"editsNotApplied">>
                               /\ arg = "peerError" => c.sent = <<"peerError">>
                               /\ arg = "evicted" => c.sent = <<"noClientReply">>
                               /\ arg # "evicted" =>
                                    last'.op = "onReply" /\ last'.id = JInt(c.out)]_vars

\* the peer reported the edit not applied and the command call was answered
\* with the error, once
C36_Witness ==
  /\ last.op = "onReply"
  /\ last.arg = "notApplied"
  /\ \E c \in ended :
       /\ c.method = "workspace/executeCommand"
       /\ last.id = JInt(c.out)
       /\ c.sent = <<"editsNotApplied">>

\* the step dispatched an apply-rename command whose rename failed: the call
\* it dispatched was answered with the error of the rename
RenameFailed ==
  /\ last'.op = "onCall"
  /\ \E c \in ended' \cup {calls'[n] : n \in DOMAIN calls'} :
       c.n = last'.call /\ c.sent = <<"renameError">>

(* C37: when the rename behind an apply-rename command fails, the call is  *)
(* answered with the error and the handler stops: the call ends, no        *)
(* outbound workspace/applyEdit call is issued (no id taken, no callback   *)
(* registered, no frame written).                                          *)
C37_FailedRenameStops ==
  [][RenameFailed =>
       /\ \E c \in ended' : c.n = last'.call /\ c.sent = <<"renameError">>
       /\ last'.call \notin DOMAIN calls'
       /\ NextCallID' = NextCallID
       /\ ReplyCallbacks' = ReplyCallbacks
       /\ lastCallFrame' = lastCallFrame]_vars

\* begin, then reports, then end, again and again: the bar's notifications so far
Alternates(log) ==
  \A k \in 1..Len(log) :
    IF log[k] = "begin"
      THEN k = 1 \/ log[k - 1] = "end"
      ELSE k > 1 /\ log[k - 1] \in {"begin", "report"}

\* a $/progress notification is written in this step
ProgressWritten == progressSent' # progressSent

\* a creation request of the progress bar waits for its reply
CreateOutstanding == \E k \in 1..Len(ReplyCallbacks) : ReplyCallbacks[k].cb = ProgressCB

(***************************************************************************)
(* C38 as stated: the begin and end notifications of the background-index  *)
(* progress bar alternate starting with begin, no report or end is sent    *)
(* without an unmatched begin before it, and no progress notification is   *)
(* written while the state is Unsupported or Creating.                     *)
(***************************************************************************)
C38_NoneWhileCreating ==
  /\ []Alternates(progressSent)
  /\ [][ProgressWritten =>
         BackgroundIndexProgressState \notin {"Unsupported", "Creating"}]_vars

(***************************************************************************)
(* C38: the begin and end notifications of the background-index progress   *)
(* bar alternate starting with begin and no report or end is sent without  *)
(* an unmatched begin before it.  A report or an end is written only while *)
(* the state is Live, a begin only while it is Empty or Creating, nothing  *)
(* while it is Unsupported, and while it is Creating only once the         *)
(* creation request is no longer waiting for its reply.                    *)
(***************************************************************************)
C38_BeginEndAlternate ==
  /\ []Alternates(progressSent)
  /\ [][ProgressWritten =>
         LET value == progressSent'[Len(progressSent')]
         IN /\ value \in {"report", "end"} <=> BackgroundIndexProgressState = "Live"
            /\ value = "begin" <=> BackgroundIndexProgressState \in {"Empty", "Creating"}
            /\ BackgroundIndexProgressState = "Creating" => ~CreateOutstanding]_vars

\* the bar was created on request, began with the cached update and has ended
C38_Witness ==
  /\ ~BackgroundIndexSkipCreate
  /\ progressSent = <<"begin", "report", "end">>
  /\ BackgroundIndexProgressState = "Empty"

\* the creation requests of the progress bar that are not resolved: in the reply
\* table, taken out of it by a thread, or with the callback running
CreateRequests ==
  Cardinality({k \in 1..Len(ReplyCallbacks) : ReplyCallbacks[k].cb = ProgressCB})
    + Cardinality({t \in Threads :
                     \/ heldCB[t].cb = ProgressCB
                     \/ \E k \in 1..Len(pcs[t]) : pcs[t][k].op = "created"})

\* thread t takes the step op
Takes(t, op) == pcs[t] # <<>> /\ Head(pcs[t]).op = op /\ pcs'[t] # pcs[t]

\* a creation request is put into the reply table in this step
CreateRequested ==
  \E t \in Threads : Takes(t, "bind") /\ Head(pcs[t]).n = ProgressCB

(***************************************************************************)
(* C39: at most one creation request of the progress bar is unresolved at  *)
(* any time; an update that arrives while the state is Creating is only    *)
(* cached, and the update cached last is the one the bar starts with; a    *)
(* failed creation request makes the state Unsupported, and once the       *)
(* server is initialized Unsupported is left no more, no creation request  *)
(* is issued and no progress notification is written in it.                *)
(***************************************************************************)
C39_OneCreationThenGiveUp ==
  /\ [](CreateRequests <= 1)
  /\ [][\A t \in Threads :
          /\ Takes(t, "switch") /\ BackgroundIndexProgressState = "Creating" =>
               pcs'[t] = <<I("pend", Head(pcs[t]).arg, 0)>> \o Tail(pcs[t])
          /\ Takes(t, "pend") =>
               PendingBackgroundIndexProgress' = Head(pcs[t]).arg
          /\ Takes(t, "created") /\ Head(pcs[t]).arg # "ok" =>
               pcs'[t] = <<I("set", "Unsupported", 0)>> \o Tail(pcs[t])
          /\ Takes(t, "set") =>
               BackgroundIndexProgressState' = Head(pcs[t]).arg]_vars
  /\ [][ProgressWritten /\ ~BackgroundIndexSkipCreate
          /\ progressSent # <<>> /\ progressSent[Len(progressSent)] = "begin" =>
            (progressSent'[Len(progressSent')] = "report"
               <=> PendingBackgroundIndexProgress = "more")]_vars
  /\ [][bound /\ BackgroundIndexProgressState = "Unsupported" =>
          /\ BackgroundIndexProgressState' = "Unsupported"
          /\ ~ProgressWritten
          /\ ~CreateRequested]_vars

\* the creation request failed after two updates were cached, and the state is
\* Unsupported with nothing written
C39_Witness ==
  /\ bound /\ ~BackgroundIndexSkipCreate
  /\ BackgroundIndexProgressState = "Unsupported"
  /\ PendingBackgroundIndexProgress # "idle"
  /\ progressSent = <<>>
  /\ CreateRequests = 0
  /\ nlock >= 3
  /\ \A t \in Threads : pcs[t] = <<>>

====
